---- MODULE Spec2Model ----
(***************************************************************************)
(* Quota-and-distribution engine of the WhatsApp lead automation.          *)
(*                                                                         *)
(* Spec          the single-browser orchestrator EnhancedLeadAutomation    *)
(*               (lead_automation_selenium_whatsapp.py), several process   *)
(*               runs on one calendar day, short batches of leads.         *)
(* SpecScenario  one run of the same orchestrator on a long batch of       *)
(*               distinct leads, from empty tables.                        *)
(* SpecRetention the same orchestrator run once a day over many days, for  *)
(*               the 7-day window of the persisted tables.                 *)
(* SpecDist      LeadDistributor.distribute_leads as a pure function.      *)
(* SpecMulti     MultiTeamAutomation: one worker thread per phone team on  *)
(*               a shared GlobalQuotaManager.                              *)
(*                                                                         *)
(* The delivery gateway, the lead source and the clock are collaborators   *)
(* outside the program: their answers are inputs chosen with \E.           *)
(***************************************************************************)
EXTENDS Integers, Sequences, FiniteSets, TLC

VARIABLES
    \* ---- environment -------------------------------------------------
    today,          \* calendar day, datetime.now().strftime('%Y-%m-%d') as a day number
    lead_source,    \* the lists the lead API may answer with
    runs_per_day,   \* how often the operator starts the script on one day
    runs_left,      \* starts still to come today
    GLOBAL_DAILY_LIMIT, \* GLOBAL_DAILY_LIMIT of .env, read when the module is loaded
    MAX_CONCURRENT_BROWSERS, \* MAX_CONCURRENT_BROWSERS of .env
    SCRIPT_START_TIME,  \* the text of SCRIPT_START_TIME, as its fields between ':'
    SCRIPT_END_TIME,    \* the text of SCRIPT_END_TIME
    clocks,         \* the times of day at which the operator may start the script
    clock,          \* datetime.now().time() of the running process, in seconds
    unreadable,     \* the names of the state files whose content is not valid JSON
    unwritable,     \* the names of the state files that cannot be written
    \* ---- is_working_hours taken alone ---------------------------------
    g_variant,      \* the class whose working-hours check is called
    g_result,       \* what the check returned
    g_pc,           \* "call" before the check, "returned" after
    \* ---- one call of a function that builds a MessageResult ------------
    mr_producer,    \* the function called
    mr_input,       \* what the outside world answers during the call
    mr_result,      \* the MessageResult returned
    mr_pc,          \* "idle", "call" or "returned"
    \* ---- LeadAutomationManager (lead_automation_wati.py) ---------------
    w_quota_file,   \* quota_usage.json: date -> counsellor -> count
    w_sent_file,    \* sent_messages.json: date -> list of lead ids
    w_daily_quota,  \* self.daily_quota
    w_sent_today,   \* self.sent_messages_today
    w_pc,           \* "off", "constructed", "loop", "returned"
    w_status,       \* 'status' of the dict run_automation returns
    w_leads,        \* the list fetch_leads returned
    w_i,            \* position of the for loop in w_leads
    w_calls,        \* requests of the running process to each outside service
    w_send,         \* the last call of send_whatsapp_message: attempts, waits, result
    w_total_sent,   \* total_sent of run_automation
    w_total_failed, \* total_failed of run_automation
    \* ---- two EnhancedLeadAutomation processes at the same time ---------
    o_proc,         \* per process: pc, daily_quota, sent_today, leads, i
    \* ---- EnhancedLeadAutomation (single browser) -----------------------
    quota_file,     \* quota_usage.json: day -> record
    sent_file,      \* sent_messages.json: day -> list of lead ids
    daily_quota,    \* self.daily_quota
    sent_today,     \* self.sent_today
    browser,        \* self.selenium_client.driver: "none", "open", "closed"
    pc,             \* position of the process in run_campaign
    status,         \* 'status' of the dict run_campaign returns
    leads,          \* the fetched batch
    i,              \* enumerate(leads, 1) index of the next lead
    processed,      \* run_campaign's local counter
    metrics,        \* self.analytics.metrics: total_processed and the status counters
    \* ---- history of the single-browser runs ----------------------------
    sends,          \* lead id -> successful gateway sends today
    attempted,      \* indexes of this run's leads handed to the gateway
    halted_at,      \* index at which should_continue = False came back, 0 if none
    saved_today,    \* _save_quota_data has written the table today
    streak,         \* consecutive days before today on which it did, up to 9
    \* ---- LeadDistributor ----------------------------------------------
    d_strategy,     \* LEAD_DISTRIBUTION_STRATEGY
    d_leads,        \* input list of distribute_leads
    d_capacity,     \* team['capacity'] per team
    d_used,         \* quota_manager.get_team_quota_used per team
    d_result,       \* returned mapping
    d_pc,           \* "call" before distribute_leads, "returned" after, "looping"
    \* ---- MultiTeamAutomation ------------------------------------------
    mt_file,        \* multi_team_quota.json: day -> record
    quota_data,     \* GlobalQuotaManager.quota_data
    team_clients,   \* teams with a stored SeleniumWhatsAppClient
    team_browser,   \* team -> "none", "open", "closed"
    mpc,            \* position in run_multi_team_campaign
    mstatus,        \* 'status' of the dict it returns
    distributed,    \* team -> list of leads
    wpc,            \* team -> position of the team's worker thread
    widx,           \* team -> index of the worker's next lead
    wreg,           \* team -> value read by the worker inside increment_quota
    wcont,          \* team -> should_continue of the worker's last result
    \* ---- history of the multi-team runs --------------------------------
    msends,         \* lead id -> successful gateway sends today
    msuccess,       \* number of successful sends today
    csends,         \* counsellor -> successful sends in the counsellor's name today
    after_halt,     \* teams that handed a lead to the gateway after a halt result
    mlast           \* the last hand-over to a gateway: team, client, counsellor

envVars    == <<today, lead_source, runs_per_day, runs_left, GLOBAL_DAILY_LIMIT,
                MAX_CONCURRENT_BROWSERS,
                   SCRIPT_START_TIME, SCRIPT_END_TIME, clocks, clock, unreadable,
                   unwritable>>
gateVars   == <<g_variant, g_result, g_pc>>
outcomeVars == <<mr_producer, mr_input, mr_result, mr_pc>>
watiVars   == <<w_quota_file, w_sent_file, w_daily_quota, w_sent_today, w_pc,
                w_status, w_leads, w_i, w_calls, w_send, w_total_sent, w_total_failed>>
singleVars == <<quota_file, sent_file, daily_quota, sent_today, browser, pc,
                status, leads, i, processed, metrics, sends, attempted, halted_at, saved_today, streak>>
distVars   == <<d_strategy, d_leads, d_capacity, d_used, d_result, d_pc>>
multiVars  == <<mt_file, quota_data, team_clients, team_browser, mpc, mstatus,
                distributed, wpc, widx, wreg, wcont, msends, msuccess, csends, after_halt, mlast>>
overlapVars == <<o_proc>>
vars       == <<envVars, gateVars, outcomeVars, watiVars, overlapVars, singleVars, distVars, multiVars>>

----------------------------------------------------------------------------
(* Configuration                                                           *)

\* ALL_COUNSELLORS, cut down to two names; daily_limit is 50 for each in
\* the source and is kept small here.
ALL_COUNSELLORS == {"Anandi", "Preeti"}

LimitAnandi == 2
LimitPreeti == 1

daily_limit(name) ==
    CASE name = "Anandi" -> LimitAnandi
      [] name = "Preeti" -> LimitPreeti

\* the largest GLOBAL_DAILY_LIMIT set in .env (validate_env_config)
GlobalLimit == 3

\* timedelta(days=7) of every _save_* method
RETENTION_DAYS == 7

\* bounds of the model
MaxLeads     == 2       \* length of the short lists of the lead source
NumLeadIds   == 2       \* distinct lead ids in the short lists
ScenarioLen  == 10      \* length of the long list of distinct leads
MaxRuns      == 2       \* process starts on one day
QueueLen     == 4       \* length of the queue that outlasts the quota
FirstDay     == 1
MaxNights    == 1       \* midnights a run of the script lasts through
MaxDay       == 10      \* last calendar day of the retention runs

LeadIds == 1..NumLeadIds

Max(a, b) == IF a >= b THEN a ELSE b
Min(a, b) == IF a <= b THEN a ELSE b

RECURSIVE SumOver(_, _)
SumOver(f, S) ==
    IF S = {} THEN 0
    ELSE LET x == CHOOSE y \in S : TRUE IN f[x] + SumOver(f, S \ {x})

Range(s) == {s[k] : k \in 1..Len(s)}

----------------------------------------------------------------------------
(* Persisted tables                                                        *)

\* the state files: quota_usage.json and sent_messages.json of the
\* single-browser and WATI orchestrators, multi_team_quota.json of
\* GlobalQuotaManager
QUOTA_FILE == "quota_usage.json"
SENT_FILE == "sent_messages.json"
MULTI_QUOTA_FILE == "multi_team_quota.json"

\* json.load(f) raises json.JSONDecodeError, a ValueError
JsonLoadRaises(name) == name \in unreadable

QuotaKeys == ALL_COUNSELLORS \cup {"global_total"}

\* a day record of quota_usage.json; a key the dict lacks reads as 0
\* through .get(name, 0)
EmptyRecord == [k \in QuotaKeys |-> 0]

\* all_data = {k: v for k, v in all_data.items() if k >= cutoff}
RetainWindow(all_data, day) ==
    [k \in {d \in DOMAIN all_data : d >= day - RETENTION_DAYS} |-> all_data[k]]

\* all_data[today] = value
Put(all_data, day, value) ==
    [k \in DOMAIN all_data \cup {day} |-> IF k = day THEN value ELSE all_data[k]]

\* EnhancedLeadAutomation._load_quota_data
LoadQuotaData(file, day) ==
    IF day \in DOMAIN file THEN file[day] ELSE EmptyRecord

\* EnhancedLeadAutomation._save_quota_data, the new content of the file
SaveQuotaData(file, day, record) ==
    RetainWindow(Put(file, day, record), day)

\* _load_sent_data that starts every process with an empty set
LoadSentData_Empty(file, day) == {}

\* EnhancedLeadAutomation._load_sent_data
LoadSentData(file, day) ==
    IF day \in DOMAIN file THEN Range(file[day]) ELSE {}

\* EnhancedLeadAutomation._save_sent_data, the new content of the file
SaveSentData(file, day, lead_id) ==
    RetainWindow(
        Put(file, day, Append(IF day \in DOMAIN file THEN file[day] ELSE <<>>, lead_id)),
        day)

----------------------------------------------------------------------------
(* Delivery outcomes                                                       *)

\* MessageResult, the fields the orchestrators read
Sent       == [success |-> TRUE,  status |-> "sent",   should_continue |-> TRUE]
FailedLead == [success |-> FALSE, status |-> "failed", should_continue |-> TRUE]
FailedHalt == [success |-> FALSE, status |-> "failed", should_continue |-> FALSE]

\* what a delivery gateway may answer
GatewayOutcomes == {Sent, FailedLead, FailedHalt}

\* the result process_single_lead builds for a lead already in sent_today
AlreadySentResult == FailedLead

\* CampaignAnalytics.__init__: nothing tracked yet
NoMetrics == [total_processed |-> 0, sent |-> 0, failed |-> 0]

\* CampaignAnalytics.track_result: total_processed and the counter of the
\* final status
TrackResult(m, result) ==
    [m EXCEPT !.total_processed = @ + 1, ![result.status] = @ + 1]

----------------------------------------------------------------------------
(* EnhancedLeadAutomation: quota arithmetic                                *)

\* the comparison of get_available_counsellor taken as used <= limit
AvailableCounsellors_OffByOne(quota) ==
    {name \in ALL_COUNSELLORS : quota[name] <= daily_limit(name)}

\* get_available_counsellor without the comparison with daily_limit
AvailableCounsellors_Any(quota) == ALL_COUNSELLORS

\* get_available_counsellor: the names random.choice draws from
AvailableCounsellors(quota) ==
    {name \in ALL_COUNSELLORS : quota[name] < daily_limit(name)}

\* run_campaign: current_global_used >= GLOBAL_DAILY_LIMIT
GlobalLimitReached(quota) == quota["global_total"] >= GLOBAL_DAILY_LIMIT

\* run_campaign: global_remaining
GlobalRemaining(quota) == Max(0, GLOBAL_DAILY_LIMIT - quota["global_total"])

\* run_campaign: total_quota, the counsellors' remaining quota clamped to
\* the global remaining
TotalQuota(quota) ==
    Min(SumOver([name \in ALL_COUNSELLORS |-> Max(0, daily_limit(name) - quota[name])],
                ALL_COUNSELLORS),
        GlobalRemaining(quota))

\* process_single_lead: lead_id in self.sent_today
AlreadySent(lead_id, sent) == lead_id \in sent

\* a successful send that counts for the counsellor only
IncrementQuota_NoGlobal(quota, name) ==
    [quota EXCEPT ![name] = @ + 1]

\* process_single_lead: the two increments of a successful send
IncrementQuota(quota, name) ==
    [quota EXCEPT ![name] = @ + 1, !["global_total"] = @ + 1]

\* process_single_lead of lead_automation_wati_optimized.py, the tracking
\* after the send: on success the counsellor's counter and the sent set,
\* there is no global counter in this variant
OptimizedTrack(quota, sent, name, lead_id, result) ==
    IF result.success
       THEN [daily_quota |-> [quota EXCEPT ![name] = @ + 1],
             sent_today  |-> sent \cup {lead_id}]
       ELSE [daily_quota |-> quota, sent_today |-> sent]

\* run_campaign without the check of should_continue
SystematicFailure_Ignored(result) == FALSE

\* run_campaign: not result.should_continue
SystematicFailure(result) == ~result.should_continue

\* a finally block that leaves the driver running
CloseBrowser_Skipped(b) == b

\* SeleniumWhatsAppClient.close_browser: quits the driver if there is one
CloseBrowser(b) == IF b = "open" THEN "closed" ELSE b

ZeroSends == [id \in LeadIds \cup 1..ScenarioLen |-> 0]

----------------------------------------------------------------------------
(* The working-hours check                                                 *)

\* a time of day in seconds after midnight; datetime.time compares by
\* hour, minute, second (and microsecond, taken as 0 here)
TimeOfDay(h, m, sec) == h * 3600 + m * 60 + sec

ValueError == -1

\* datetime.strptime(text, '%H:%M').time(): two numeric fields, the hour in
\* 0..23 and the minute in 0..59, anything else raises ValueError
ParseTime(text) ==
    IF Len(text) = 2 /\ text[1] \in 0..23 /\ text[2] \in 0..59
       THEN TimeOfDay(text[1], text[2], 0)
       ELSE ValueError

\* the classes with a working-hours check: EnhancedLeadAutomation of the
\* Selenium file, MultiTeamAutomation, LeadAutomationManager of
\* lead_automation_wati.py, EnhancedLeadAutomation of
\* lead_automation_wati_optimized.py
Variants == {"EnhancedLeadAutomation", "MultiTeamAutomation",
             "LeadAutomationManager", "OptimizedLeadAutomation"}

\* what the except clause of the check returns: True in is_working_hours,
\* False in LeadAutomationManager.is_within_working_hours
OnParseError(variant) == variant # "LeadAutomationManager"

\* a check that lets every start through
IsWorkingHours_AlwaysOpen(variant, start_text, end_text, current) == TRUE

\* is_working_hours / is_within_working_hours
IsWorkingHours(variant, start_text, end_text, current) ==
    LET start == ParseTime(start_text)
        end == ParseTime(end_text)
    IN IF start = ValueError \/ end = ValueError
          THEN OnParseError(variant)
          ELSE start <= current /\ current <= end

\* a call of the check
CheckWorkingHours ==
    /\ g_pc = "call"
    /\ g_pc' = "returned"
    /\ g_result' = IsWorkingHours(g_variant, SCRIPT_START_TIME, SCRIPT_END_TIME, clock)
    /\ UNCHANGED <<envVars, g_variant, outcomeVars, watiVars, overlapVars, singleVars, distVars, multiVars>>

----------------------------------------------------------------------------
(* EnhancedLeadAutomation: the process                                     *)

OthersUnchangedS == UNCHANGED <<gateVars, outcomeVars, watiVars, overlapVars, distVars, multiVars>>

\* EnhancedLeadAutomation.__init__: a new process loads both tables
Construct ==
    /\ pc = "off"
    /\ runs_left > 0
    /\ runs_left' = runs_left - 1
    /\ clock' \in clocks
    /\ IF JsonLoadRaises(QUOTA_FILE) \/ JsonLoadRaises(SENT_FILE)
          THEN \* except FileNotFoundError lets the error out of __init__
               /\ pc' = "aborted"
               /\ UNCHANGED <<daily_quota, sent_today>>
          ELSE /\ pc' = "constructed"
               /\ daily_quota' = LoadQuotaData(quota_file, today)
               /\ sent_today' = LoadSentData(sent_file, today)
    /\ browser' = "none"
    /\ status' = "none"
    /\ leads' = <<>>
    /\ i' = 1
    /\ processed' = 0
    /\ metrics' = NoMetrics
    /\ attempted' = {}
    /\ halted_at' = 0
    /\ UNCHANGED <<today, lead_source, runs_per_day, GLOBAL_DAILY_LIMIT,
                   MAX_CONCURRENT_BROWSERS,
                   SCRIPT_START_TIME, SCRIPT_END_TIME, clocks, unreadable, unwritable, quota_file, sent_file, sends, saved_today, streak>>
    /\ OthersUnchangedS

\* run_campaign, the pre-flight checks: working hours, global limit,
\* available quota
PreFlight ==
    /\ pc = "constructed"
    /\ IF ~IsWorkingHours("EnhancedLeadAutomation", SCRIPT_START_TIME, SCRIPT_END_TIME, clock)
             THEN /\ status' = "outside_working_hours"
                  /\ pc' = "returned"
          ELSE IF GlobalRemaining(daily_quota) = 0
             THEN /\ status' = "global_quota_exhausted"
                  /\ pc' = "returned"
          ELSE IF TotalQuota(daily_quota) = 0
             THEN /\ status' = "quota_exhausted"
                  /\ pc' = "returned"
          ELSE /\ status' = status
               /\ pc' = "init_browser"
    /\ UNCHANGED <<envVars, quota_file, sent_file, daily_quota, sent_today, browser,
                   leads, i, processed, metrics, sends, attempted, halted_at, saved_today, streak>>
    /\ OthersUnchangedS

\* run_campaign: selenium_client.initialize_browser().  The driver may fail
\* to start (driver stays None), start without WhatsApp Web getting ready
\* (initialize_browser returns False with the driver running), or get ready.
InitializeBrowser ==
    /\ pc = "init_browser"
    /\ \E outcome \in {"no_driver", "not_ready", "ready"} :
          /\ browser' = IF outcome = "no_driver" THEN "none" ELSE "open"
          /\ IF outcome = "ready"
                THEN /\ pc' = "fetch"
                     /\ status' = status
                ELSE /\ pc' = "returned"
                     /\ status' = "browser_initialization_failed"
    /\ UNCHANGED <<envVars, quota_file, sent_file, daily_quota, sent_today,
                   leads, i, processed, metrics, sends, attempted, halted_at, saved_today, streak>>
    /\ OthersUnchangedS

\* run_campaign: fetch_leads; an API error gives the empty list
FetchLeads ==
    /\ pc = "fetch"
    /\ \E answer \in lead_source \cup {<<>>} :
          IF answer = <<>>
             THEN /\ browser' = CloseBrowser(browser)
                  /\ status' = "no_leads"
                  /\ pc' = "returned"
                  /\ leads' = leads
             ELSE /\ leads' = answer
                  /\ pc' = "loop"
                  /\ UNCHANGED <<browser, status>>
    /\ i' = 1
    /\ processed' = 0
    /\ metrics' = NoMetrics
    /\ UNCHANGED <<envVars, quota_file, sent_file, daily_quota, sent_today,
                   sends, attempted, halted_at, saved_today, streak>>
    /\ OthersUnchangedS

\* the loop is left: break, or an exception caught by run_campaign
LeaveLoop ==
    /\ pc' = "finally"
    /\ UNCHANGED <<i, processed>>

\* run_campaign, after process_single_lead has returned: the check for a
\* systematic failure, the processed counter, the next lead
AfterResult(result) ==
    /\ halted_at' = IF ~result.should_continue /\ halted_at = 0 THEN i ELSE halted_at
    /\ IF SystematicFailure(result)
          THEN LeaveLoop
          ELSE /\ processed' = processed + 1
               /\ i' = i + 1
               /\ pc' = "loop"

\* process_single_lead for a lead already in sent_today: the early return,
\* no gateway call
SkipLead ==
    /\ UNCHANGED <<daily_quota, quota_file, sent_file, sent_today, sends, saved_today, streak,
                   attempted, metrics>>
    /\ AfterResult(AlreadySentResult)

\* open(name, 'w') or json.dump raises (disk full, no permission); the
\* `except Exception` of the save logs it
WriteRaises(name) == name \in unwritable

\* _save_sent_data: self.sent_today.add(lead_id) is the last statement of
\* the try block, after the write of sent_messages.json
AddSentToday(sent, lead_id, write_raised) ==
    IF write_raised THEN sent ELSE sent \cup {lead_id}

\* tracking data updated after every result, delivered or not
UpdateTracking_Always(result) == TRUE

\* process_single_lead: `if result.success:` before the tracking data
UpdateTracking(result) == result.success

\* process_single_lead for a lead the gateway is called for
DeliverLead(name, result) ==
    /\ attempted' = attempted \cup {i}
    /\ sends' = IF result.success THEN [sends EXCEPT ![leads[i]] = @ + 1] ELSE sends
    /\ IF UpdateTracking(result)
          THEN /\ daily_quota' = IncrementQuota(daily_quota, name)
               /\ quota_file' = IF WriteRaises(QUOTA_FILE) THEN quota_file
                                ELSE SaveQuotaData(quota_file, today, daily_quota')
               /\ sent_file' = IF WriteRaises(SENT_FILE) THEN sent_file
                               ELSE SaveSentData(sent_file, today, leads[i])
               /\ sent_today' = AddSentToday(sent_today, leads[i], WriteRaises(SENT_FILE))
               /\ saved_today' = (saved_today \/ ~WriteRaises(QUOTA_FILE))
          ELSE UNCHANGED <<daily_quota, quota_file, sent_file, sent_today, saved_today>>
    /\ streak' = streak
    /\ metrics' = TrackResult(metrics, result)
    /\ AfterResult(result)

\* one iteration of the per-lead loop of run_campaign
ProcessLead ==
    /\ pc = "loop"
    /\ i <= Len(leads)
    /\ IF GlobalLimitReached(daily_quota) \/ AvailableCounsellors(daily_quota) = {}
          THEN /\ LeaveLoop
               /\ UNCHANGED <<daily_quota, quota_file, sent_file, sent_today,
                              sends, saved_today, streak, attempted, halted_at, metrics>>
          ELSE \E name \in AvailableCounsellors(daily_quota) :
                  IF AlreadySent(leads[i], sent_today)
                     THEN SkipLead
                     ELSE \E result \in GatewayOutcomes : DeliverLead(name, result)
    /\ UNCHANGED <<envVars, browser, status, leads>>
    /\ OthersUnchangedS

\* the for loop has run through the batch
LoopDone ==
    /\ pc = "loop"
    /\ i > Len(leads)
    /\ LeaveLoop
    /\ UNCHANGED <<envVars, quota_file, sent_file, daily_quota, sent_today, browser,
                   status, leads, sends, attempted, halted_at, saved_today, streak, metrics>>
    /\ OthersUnchangedS

\* KeyboardInterrupt inside the try block: control is in the
\* `except KeyboardInterrupt` clause of run_campaign
Interrupt ==
    /\ pc = "loop"
    /\ pc' = "except"
    /\ UNCHANGED <<i, processed, metrics>>
    /\ UNCHANGED <<envVars, quota_file, sent_file, daily_quota, sent_today, browser,
                   status, leads, sends, attempted, halted_at, saved_today, streak>>
    /\ OthersUnchangedS

\* an exception raised while lead i is processed, before the lead is handed
\* to the gateway (lead.get on a malformed entry, building the message):
\* the try block encloses the whole for loop, so control is in the
\* `except Exception` clause of run_campaign, outside the loop
CampaignError ==
    /\ pc = "loop"
    /\ i <= Len(leads)
    /\ ~GlobalLimitReached(daily_quota)
    /\ AvailableCounsellors(daily_quota) # {}
    /\ pc' = "except_error"
    /\ UNCHANGED <<i, processed, metrics>>
    /\ UNCHANGED <<envVars, quota_file, sent_file, daily_quota, sent_today, browser,
                   status, leads, sends, attempted, halted_at, saved_today, streak>>
    /\ OthersUnchangedS

\* the finally block and the return of run_campaign
Finally ==
    /\ pc \in {"finally", "except", "except_error"}
    /\ browser' = CloseBrowser(browser)
    /\ status' = "completed"
    /\ pc' = "returned"
    /\ UNCHANGED <<envVars, quota_file, sent_file, daily_quota, sent_today,
                   leads, i, processed, metrics, sends, attempted, halted_at, saved_today, streak>>
    /\ OthersUnchangedS

\* the process ends: its batch and its counters are gone, the files stay
Exit ==
    /\ pc \in {"returned", "aborted"}
    /\ pc' = "off"
    /\ browser' = "none"
    /\ status' = "none"
    /\ leads' = <<>>
    /\ i' = 1
    /\ processed' = 0
    /\ metrics' = NoMetrics
    /\ attempted' = {}
    /\ halted_at' = 0
    /\ UNCHANGED <<envVars, quota_file, sent_file, daily_quota, sent_today, sends, saved_today, streak>>
    /\ OthersUnchangedS

\* where the process may be killed while process_single_lead records a
\* delivered message: before _save_quota_data, inside its write (the file
\* was truncated by open(..., 'w') and json.dump has not finished), between
\* the two saves, inside the write of _save_sent_data
CrashPoints == {"before_save", "in_quota_write", "between_saves", "in_sent_write"}

\* the process is killed (SIGKILL, power loss) while a successful send is
\* being recorded; nothing of the process survives, the files stay as the
\* writes left them
CrashWhileRecording ==
    /\ pc = "loop"
    /\ i <= Len(leads)
    /\ ~GlobalLimitReached(daily_quota)
    /\ ~AlreadySent(leads[i], sent_today)
    /\ \E name \in AvailableCounsellors(daily_quota), point \in CrashPoints :
          LET quota == IncrementQuota(daily_quota, name)
          IN /\ quota_file' = IF point \in {"between_saves", "in_sent_write"}
                                 THEN SaveQuotaData(quota_file, today, quota)
                                 ELSE quota_file
             /\ unreadable' = IF point = "in_quota_write" THEN unreadable \cup {QUOTA_FILE}
                              ELSE IF point = "in_sent_write" THEN unreadable \cup {SENT_FILE}
                              ELSE unreadable
             /\ saved_today' = (saved_today \/ point \in {"between_saves", "in_sent_write"})
    /\ sends' = [sends EXCEPT ![leads[i]] = @ + 1]
    /\ pc' = "off"
    /\ browser' = "none"
    /\ status' = "none"
    /\ leads' = <<>>
    /\ i' = 1
    /\ processed' = 0
    /\ metrics' = NoMetrics
    /\ attempted' = {}
    /\ halted_at' = 0
    /\ UNCHANGED <<today, lead_source, runs_per_day, runs_left, GLOBAL_DAILY_LIMIT,
                   MAX_CONCURRENT_BROWSERS,
                   SCRIPT_START_TIME, SCRIPT_END_TIME, clocks, clock, unwritable,
                   sent_file, daily_quota, sent_today, streak>>
    /\ OthersUnchangedS

\* midnight passes while no process runs
NextDay ==
    /\ pc = "off"
    /\ today < MaxDay
    /\ today' = today + 1
    /\ runs_left' = runs_per_day
    /\ sends' = ZeroSends
    /\ saved_today' = FALSE
    /\ streak' = IF saved_today THEN Min(streak + 1, 9) ELSE 0
    /\ UNCHANGED <<lead_source, runs_per_day, GLOBAL_DAILY_LIMIT,
                   MAX_CONCURRENT_BROWSERS,
                   SCRIPT_START_TIME, SCRIPT_END_TIME, clocks, unreadable, unwritable, clock, quota_file, sent_file, daily_quota, sent_today, browser,
                   pc, status, leads, i, processed, metrics, attempted, halted_at>>
    /\ OthersUnchangedS

\* the time of day moves on while run_campaign is in its loop: the sends
\* and the time.sleep(1) countdown between two leads take time
ClockAdvances ==
    /\ pc = "loop"
    /\ clock' \in {c \in clocks : c > clock}
    /\ UNCHANGED <<today, lead_source, runs_per_day, runs_left, GLOBAL_DAILY_LIMIT,
                   MAX_CONCURRENT_BROWSERS,
                   SCRIPT_START_TIME, SCRIPT_END_TIME, clocks, unreadable, unwritable>>
    /\ UNCHANGED singleVars
    /\ OthersUnchangedS

\* midnight passes while run_campaign is in its loop: datetime.now() gives
\* the next date from here on, the process and what it has in memory stay
MidnightWhileRunning ==
    /\ pc = "loop"
    /\ today < FirstDay + MaxNights
    /\ today' = today + 1
    /\ sends' = ZeroSends
    /\ saved_today' = FALSE
    /\ streak' = IF saved_today THEN Min(streak + 1, 9) ELSE 0
    /\ UNCHANGED <<lead_source, runs_per_day, runs_left, GLOBAL_DAILY_LIMIT,
                   MAX_CONCURRENT_BROWSERS,
                   SCRIPT_START_TIME, SCRIPT_END_TIME, clocks, unreadable, unwritable, clock, quota_file, sent_file, daily_quota, sent_today, browser,
                   pc, status, leads, i, processed, metrics, attempted, halted_at>>
    /\ OthersUnchangedS

----------------------------------------------------------------------------
(* Two EnhancedLeadAutomation processes running at overlapping times       *)

\* two starts of the script, e.g. a scheduled one and a manual one
Procs == {1, 2}

\* a process that has not been started
IdleProcess ==
    [pc |-> "off", daily_quota |-> EmptyRecord, sent_today |-> {}, leads |-> <<>>, i |-> 1]

OthersUnchangedO ==
    UNCHANGED <<envVars, gateVars, outcomeVars, watiVars, distVars, multiVars, daily_quota, sent_today,
                browser, pc, status, leads, i, processed, metrics, attempted, halted_at, streak>>

\* EnhancedLeadAutomation.__init__ of process p: both tables are loaded
\* from the files as they are at this moment
OverlapConstruct(p) ==
    /\ o_proc[p].pc = "off"
    /\ ~JsonLoadRaises(QUOTA_FILE) /\ ~JsonLoadRaises(SENT_FILE)
    /\ o_proc' = [o_proc EXCEPT ![p] =
                    [pc |-> "constructed",
                     daily_quota |-> LoadQuotaData(quota_file, today),
                     sent_today |-> LoadSentData(sent_file, today),
                     leads |-> <<>>, i |-> 1]]
    /\ UNCHANGED <<quota_file, sent_file, sends, saved_today>>
    /\ OthersUnchangedO

\* run_campaign of process p up to the loop: the pre-flight checks, a
\* browser that gets ready, fetch_leads
OverlapStart(p) ==
    /\ o_proc[p].pc = "constructed"
    /\ IF \/ ~IsWorkingHours("EnhancedLeadAutomation", SCRIPT_START_TIME, SCRIPT_END_TIME, clock)
          \/ GlobalRemaining(o_proc[p].daily_quota) = 0
          \/ TotalQuota(o_proc[p].daily_quota) = 0
          THEN o_proc' = [o_proc EXCEPT ![p].pc = "returned"]
          ELSE \E answer \in lead_source \cup {<<>>} :
                  o_proc' = [o_proc EXCEPT ![p].leads = answer,
                                           ![p].pc = IF answer = <<>> THEN "returned" ELSE "loop"]
    /\ UNCHANGED <<quota_file, sent_file, sends, saved_today>>
    /\ OthersUnchangedO

\* one iteration of the per-lead loop of run_campaign in process p; the
\* dedup check reads the sent_today of the process, the saves re-read the
\* file and write the daily_quota of the process as today's entry
OverlapProcessLead(p) ==
    LET me == o_proc[p]
    IN /\ me.pc = "loop"
       /\ me.i <= Len(me.leads)
       /\ IF GlobalLimitReached(me.daily_quota) \/ AvailableCounsellors(me.daily_quota) = {}
             THEN /\ o_proc' = [o_proc EXCEPT ![p].pc = "returned"]
                  /\ UNCHANGED <<quota_file, sent_file, sends, saved_today>>
          ELSE IF AlreadySent(me.leads[me.i], me.sent_today)
             THEN /\ o_proc' = [o_proc EXCEPT ![p].i = @ + 1]
                  /\ UNCHANGED <<quota_file, sent_file, sends, saved_today>>
          ELSE \E name \in AvailableCounsellors(me.daily_quota), result \in GatewayOutcomes :
                  IF result.success
                     THEN LET quota == IncrementQuota(me.daily_quota, name)
                          IN /\ quota_file' = SaveQuotaData(quota_file, today, quota)
                             /\ sent_file' = SaveSentData(sent_file, today, me.leads[me.i])
                             /\ sends' = [sends EXCEPT ![me.leads[me.i]] = @ + 1]
                             /\ saved_today' = TRUE
                             /\ o_proc' = [o_proc EXCEPT
                                             ![p].daily_quota = quota,
                                             ![p].sent_today = @ \cup {me.leads[me.i]},
                                             ![p].i = @ + 1]
                     ELSE /\ o_proc' = IF SystematicFailure(result)
                                          THEN [o_proc EXCEPT ![p].pc = "returned"]
                                          ELSE [o_proc EXCEPT ![p].i = @ + 1]
                          /\ UNCHANGED <<quota_file, sent_file, sends, saved_today>>
       /\ OthersUnchangedO

\* the for loop of process p has run through its batch
OverlapLoopDone(p) ==
    /\ o_proc[p].pc = "loop"
    /\ o_proc[p].i > Len(o_proc[p].leads)
    /\ o_proc' = [o_proc EXCEPT ![p].pc = "returned"]
    /\ UNCHANGED <<quota_file, sent_file, sends, saved_today>>
    /\ OthersUnchangedO

----------------------------------------------------------------------------
(* LeadAutomationManager of lead_automation_wati.py                        *)

\* the keys of COUNSELLORS, with the limits of daily_limit(name)
COUNSELLORS == ALL_COUNSELLORS

\* self.daily_quota; a key the dict lacks reads as 0 through .get(name, 0)
WatiEmptyQuota == [c \in COUNSELLORS |-> 0]

\* the services a run talks to: the lead API of fetch_leads, the WATI
\* gateway of send_template_message, the log API of save_message_log
Services == {"lead_source", "gateway", "log_sink"}

NoCalls == [s \in Services |-> 0]

\* LeadAutomationManager._load_daily_quota: data.get(today, {}), and {} on
\* any error
WatiLoadDailyQuota(file, day) ==
    IF day \in DOMAIN file THEN file[day] ELSE WatiEmptyQuota

\* LeadAutomationManager._save_daily_quota, the new content of the file
WatiSaveDailyQuota(file, day, quota) ==
    RetainWindow(Put(file, day, quota), day)

\* LeadAutomationManager._load_sent_messages_today
WatiLoadSentMessagesToday(file, day) ==
    IF day \in DOMAIN file THEN Range(file[day]) ELSE {}

\* LeadAutomationManager._save_sent_message, the new content of the file
WatiSaveSentMessage(file, day, lead_id) ==
    RetainWindow(
        Put(file, day, Append(IF day \in DOMAIN file THEN file[day] ELSE <<>>, lead_id)),
        day)

\* LeadAutomationManager.get_available_counsellor, the candidates of
\* random.choice
WatiAvailableCounsellors(quota) ==
    {c \in COUNSELLORS : quota[c] < daily_limit(c)}

\* total_remaining_quota of run_automation
WatiTotalRemaining(quota) ==
    SumOver([c \in COUNSELLORS |-> Max(0, daily_limit(c) - quota[c])], COUNSELLORS)

\* max_retries of send_whatsapp_message
MAX_RETRIES == 3

\* what one call of wati_client.send_template_message may come back with:
\* delivered (HTTP success, result true), not delivered (result false) for
\* this number only, not delivered for a reason that hits every message
\* (credits, template, account), an API failure ('success' false), or an
\* exception of the request
Delivered     == "delivered"
NotDelivered  == "not_delivered"
Systematic    == "systematic"
ApiFailed     == "api_failed"
RaisedError   == "exception"
GatewayResponses == {Delivered, NotDelivered, Systematic, ApiFailed, RaisedError}

\* wait_time = 2 ** attempt
WaitTime(attempt) == 2 ^ attempt

\* a loop that waits and goes on after every failed request
RetryAgain_Always(attempt) == TRUE

\* if attempt < max_retries - 1
RetryAgain(attempt) == attempt < MAX_RETRIES - 1

\* the call before any request
NoSend == [success |-> FALSE, should_continue |-> TRUE, responses |-> <<>>,
           sleeps |-> <<>>, gateway |-> 0, log_sink |-> 0]

\* the body of `for attempt in range(max_retries)` from pass attempt on;
\* responses[k] is what the k-th request comes back with.  The result holds
\* the requests made, the waits of time.sleep, and the returned tuple.
RECURSIVE SendAttempts(_, _)
SendAttempts(responses, attempt) ==
    IF attempt >= MAX_RETRIES
       THEN NoSend                                  \* "Max retries exceeded"
    ELSE LET r == responses[attempt + 1]
             made == [NoSend EXCEPT !.responses = <<r>>, !.gateway = 1, !.log_sink = 1]
         IN CASE r = Delivered    -> [made EXCEPT !.success = TRUE]
              [] r = NotDelivered -> made
              [] r = Systematic   -> [made EXCEPT !.should_continue = FALSE]
              [] OTHER ->
                    IF RetryAgain(attempt)
                       THEN LET rest == SendAttempts(responses, attempt + 1)
                            IN [rest EXCEPT !.responses = <<r>> \o @,
                                            !.gateway = @ + 1,
                                            !.sleeps = <<WaitTime(attempt)>> \o @]
                       ELSE made

\* LeadAutomationManager.send_whatsapp_message: a lead without a mobile
\* number costs no request
SendWhatsappMessage(has_mobile, responses) ==
    IF ~has_mobile THEN NoSend ELSE SendAttempts(responses, 0)

\* what send_whatsapp_message may return, over every course of the requests
WatiSendOutcomes ==
    {SendWhatsappMessage(has_mobile, responses) :
        has_mobile \in BOOLEAN, responses \in [1..MAX_RETRIES -> GatewayResponses]}

OthersUnchangedW == UNCHANGED <<gateVars, outcomeVars, overlapVars, singleVars, distVars, multiVars>>

\* LeadAutomationManager.__init__ in a new process
WatiConstruct ==
    /\ w_pc = "off"
    /\ runs_left > 0
    /\ runs_left' = runs_left - 1
    /\ clock' \in clocks
    /\ w_pc' = "constructed"
    /\ w_daily_quota' = (IF JsonLoadRaises(QUOTA_FILE) THEN WatiEmptyQuota
                          ELSE WatiLoadDailyQuota(w_quota_file, today))
    /\ w_sent_today' = (IF JsonLoadRaises(SENT_FILE) THEN {}
                         ELSE WatiLoadSentMessagesToday(w_sent_file, today))
    /\ w_status' = "none"
    /\ w_leads' = <<>>
    /\ w_i' = 1
    /\ w_calls' = NoCalls
    /\ w_send' = NoSend
    /\ w_total_sent' = 0
    /\ w_total_failed' = 0
    /\ UNCHANGED <<today, lead_source, runs_per_day, GLOBAL_DAILY_LIMIT,
                   MAX_CONCURRENT_BROWSERS,
                   SCRIPT_START_TIME, SCRIPT_END_TIME, clocks, unreadable, unwritable, w_quota_file, w_sent_file>>
    /\ OthersUnchangedW

\* run_automation up to the loop: the working-hours check, the remaining
\* quota, fetch_leads
RunAutomation ==
    /\ w_pc = "constructed"
    /\ IF ~IsWorkingHours("LeadAutomationManager", SCRIPT_START_TIME, SCRIPT_END_TIME, clock)
          THEN /\ w_status' = "outside_working_hours"
               /\ w_pc' = "returned"
               /\ UNCHANGED <<w_leads, w_calls, w_send, w_total_sent, w_total_failed>>
       ELSE IF WatiTotalRemaining(w_daily_quota) = 0
          THEN /\ w_status' = "all_quotas_exhausted"
               /\ w_pc' = "returned"
               /\ UNCHANGED <<w_leads, w_calls, w_send, w_total_sent, w_total_failed>>
       ELSE /\ w_calls' = [w_calls EXCEPT !["lead_source"] = @ + 1]
            /\ \E answer \in lead_source \cup {<<>>} :
                  /\ w_leads' = answer
                  /\ IF answer = <<>>
                        THEN w_status' = "no_leads" /\ w_pc' = "returned"
                        ELSE w_status' = "none" /\ w_pc' = "loop"
    /\ UNCHANGED <<envVars, w_quota_file, w_sent_file, w_daily_quota, w_sent_today, w_i,
                   w_send, w_total_sent, w_total_failed>>
    /\ OthersUnchangedW

\* one pass of the for loop of run_automation
WatiProcessLead ==
    /\ w_pc = "loop"
    /\ w_i <= Len(w_leads)
    /\ LET lead_id == w_leads[w_i]
       IN IF lead_id \in w_sent_today
             THEN /\ w_i' = w_i + 1
                  /\ UNCHANGED <<w_quota_file, w_sent_file, w_daily_quota, w_sent_today,
                                 w_pc, w_status, w_calls, w_send, w_total_sent, w_total_failed>>
          ELSE IF WatiAvailableCounsellors(w_daily_quota) = {}
             THEN /\ w_pc' = "returned"
                  /\ w_status' = "completed"
                  /\ UNCHANGED <<w_quota_file, w_sent_file, w_daily_quota, w_sent_today,
                                 w_i, w_calls, w_send, w_total_sent, w_total_failed>>
          ELSE \E counsellor_name \in WatiAvailableCounsellors(w_daily_quota),
                  result \in WatiSendOutcomes :
                  /\ w_calls' = [w_calls EXCEPT !["gateway"] = @ + result.gateway,
                                                !["log_sink"] = @ + result.log_sink]
                  /\ w_send' = result
                  /\ w_total_sent' = w_total_sent + (IF result.success THEN 1 ELSE 0)
                  /\ w_total_failed' = w_total_failed + (IF result.success THEN 0 ELSE 1)
                  /\ IF result.success
                        THEN LET quota == [w_daily_quota EXCEPT ![counsellor_name] = @ + 1]
                             IN /\ w_daily_quota' = quota
                                /\ IF JsonLoadRaises(QUOTA_FILE)
                                      THEN UNCHANGED w_quota_file
                                      ELSE w_quota_file'
                                              = WatiSaveDailyQuota(w_quota_file, today, quota)
                                /\ IF JsonLoadRaises(SENT_FILE)
                                      THEN UNCHANGED <<w_sent_file, w_sent_today>>
                                      ELSE /\ w_sent_file'
                                                 = WatiSaveSentMessage(w_sent_file, today, lead_id)
                                           /\ w_sent_today' = w_sent_today \cup {lead_id}
                                /\ w_i' = w_i + 1
                                /\ UNCHANGED <<w_pc, w_status>>
                     ELSE IF ~result.should_continue
                        THEN /\ w_pc' = "returned"
                             /\ w_status' = "completed"
                             /\ UNCHANGED <<w_quota_file, w_sent_file, w_daily_quota,
                                            w_sent_today, w_i>>
                     ELSE /\ w_i' = w_i + 1
                          /\ UNCHANGED <<w_quota_file, w_sent_file, w_daily_quota,
                                         w_sent_today, w_pc, w_status>>
    /\ UNCHANGED <<envVars, w_leads>>
    /\ OthersUnchangedW

\* the loop ran through the list: the summary of run_automation
WatiLoopDone ==
    /\ w_pc = "loop"
    /\ w_i > Len(w_leads)
    /\ w_pc' = "returned"
    /\ w_status' = "completed"
    /\ UNCHANGED <<envVars, w_quota_file, w_sent_file, w_daily_quota, w_sent_today,
                   w_leads, w_i, w_calls, w_send, w_total_sent, w_total_failed>>
    /\ OthersUnchangedW

\* the process ends
WatiExit ==
    /\ w_pc = "returned"
    /\ w_pc' = "off"
    /\ UNCHANGED <<envVars, w_quota_file, w_sent_file, w_daily_quota, w_sent_today,
                   w_status, w_leads, w_i, w_calls, w_send, w_total_sent, w_total_failed>>
    /\ OthersUnchangedW

----------------------------------------------------------------------------
(* LeadDistributor                                                         *)

\* the phone teams, in the order of team_configs in build_all_teams
TeamOrder == <<"sweta_jio", "sweta_airtel", "dipali_jio">>

Teams == Range(TeamOrder)

MaxTeamCapacity == 3    \* largest team['capacity'] and largest used count
MaxDistLeads    == 5    \* longest list handed to distribute_leads
ScenarioCapacity == 10  \* the capacity of a team that is far from full

\* leads[a:b] of Python, 0-based, for 0 <= a
Slice(list, a, b) == SubSeq(list, a + 1, Min(b, Len(list)))

\* {team_id: [] for team_id in capacities.keys()}; order lists the keys of
\* phone_teams in insertion order
EmptyDistribution(order) == [t \in Range(order) |-> <<>>]

\* distribute_leads: max(0, team['capacity'] - used) per team
TeamCapacities(order, capacity, used) ==
    [t \in Range(order) |-> Max(0, capacity[t] - used[t])]

\* sum(capacities.values())
TotalCapacity(capacities) == SumOver(capacities, DOMAIN capacities)

\* int(len(leads) * (capacity / total_capacity)): the floor of the share.
\* The double-precision product is exact for the sizes modelled here.
LeadsForTeam(n, capacity, total_capacity) == (n * capacity) \div total_capacity

\* _capacity_based_distribution, the proportional loop from team k on;
\* st = [dist, lead_index]
RECURSIVE ProportionalLoop(_, _, _, _, _)
ProportionalLoop(order, list, capacities, k, st) ==
    IF k > Len(order) THEN st
    ELSE LET t == order[k]
             end_index == Min(st.lead_index
                                + LeadsForTeam(Len(list), capacities[t], TotalCapacity(capacities)),
                              Len(list))
         IN IF capacities[t] > 0
               THEN ProportionalLoop(order, list, capacities, k + 1,
                        [dist |-> [st.dist EXCEPT ![t] = Slice(list, st.lead_index, end_index)],
                         lead_index |-> end_index])
               ELSE ProportionalLoop(order, list, capacities, k + 1, st)

\* the remainder loop ignoring the capacity of the team
HasRoom_Unchecked(capacities, dist, t) == TRUE

\* _capacity_based_distribution: capacities[team_id] > len(distribution[team_id])
HasRoom(capacities, dist, t) == capacities[t] > Len(dist[t])

\* _capacity_based_distribution, one pass of the for loop inside the while
\* loop, from team k on
RECURSIVE RemainderPass(_, _, _, _, _)
RemainderPass(order, list, capacities, k, st) ==
    IF k > Len(order) THEN st
    ELSE LET t == order[k]
         IN IF HasRoom(capacities, st.dist, t) /\ st.lead_index < Len(list)
               THEN RemainderPass(order, list, capacities, k + 1,
                        [dist |-> [st.dist EXCEPT ![t] = Append(@, list[st.lead_index + 1])],
                         lead_index |-> st.lead_index + 1])
               ELSE RemainderPass(order, list, capacities, k + 1, st)

\* _capacity_based_distribution, the while loop.  A pass that places no lead
\* leaves the loop condition true for ever; the state is returned as it is
\* then, with lead_index < len(leads).
RECURSIVE RemainderLoop(_, _, _, _)
RemainderLoop(order, list, capacities, st) ==
    IF st.lead_index >= Len(list) THEN st
    ELSE LET after == RemainderPass(order, list, capacities, 1, st)
         IN IF after.lead_index = st.lead_index THEN st
            ELSE RemainderLoop(order, list, capacities, after)

\* the while loop of _capacity_based_distribution comes to its end: a pass
\* of the for loop that assigns no lead leaves lead_index and distribution
\* as they were, and the loop repeats that pass for ever
RECURSIVE RemainderLoopExits(_, _, _, _)
RemainderLoopExits(order, list, capacities, st) ==
    IF st.lead_index >= Len(list) THEN TRUE
    ELSE LET after == RemainderPass(order, list, capacities, 1, st)
         IN IF after.lead_index = st.lead_index THEN FALSE
            ELSE RemainderLoopExits(order, list, capacities, after)

\* LeadDistributor._capacity_based_distribution
CapacityBasedDistribution(order, list, capacities) ==
    IF list = <<>> \/ TotalCapacity(capacities) = 0 THEN EmptyDistribution(order)
    ELSE RemainderLoop(order, list, capacities,
            ProportionalLoop(order, list, capacities, 1,
                [dist |-> EmptyDistribution(order), lead_index |-> 0])).dist

\* [team_id for team_id, cap in capacities.items() if cap > 0]
\* a cycle that keeps the teams without room
AvailableTeams_All(order, capacities) == order

\* available_teams = [team_id for team_id, cap in capacities.items() if cap > 0]
AvailableTeams(order, capacities) == SelectSeq(order, LAMBDA t : capacities[t] > 0)

\* _round_robin_distribution, the for loop from lead k on; team_index = k - 1
RECURSIVE RoundRobinLoop(_, _, _, _, _)
RoundRobinLoop(order, list, capacities, k, dist) ==
    IF k > Len(list) THEN dist
    ELSE LET available == AvailableTeams(order, capacities)
             t == available[((k - 1) % Len(available)) + 1]
         IN RoundRobinLoop(order, list, capacities, k + 1,
                IF Len(dist[t]) < capacities[t]
                   THEN [dist EXCEPT ![t] = Append(@, list[k])]
                   ELSE dist)

\* LeadDistributor._round_robin_distribution
RoundRobinDistribution(order, list, capacities) ==
    IF AvailableTeams(order, capacities) = <<>> THEN EmptyDistribution(order)
    ELSE RoundRobinLoop(order, list, capacities, 1, EmptyDistribution(order))

\* _balanced_distribution, the for loop from available team k on (i = k - 1)
RECURSIVE BalancedLoop(_, _, _, _, _)
BalancedLoop(order, list, capacities, k, st) ==
    LET available == AvailableTeams(order, capacities)
    IN IF k > Len(available) THEN st
       ELSE LET t == available[k]
                leads_per_team == Len(list) \div Len(available)
                remaining_leads == Len(list) % Len(available)
                team_lead_count ==
                    Min(leads_per_team + (IF k - 1 < remaining_leads THEN 1 ELSE 0),
                        capacities[t])
                end_index == st.lead_index + team_lead_count
            IN BalancedLoop(order, list, capacities, k + 1,
                   [dist |-> [st.dist EXCEPT ![t] = Slice(list, st.lead_index, end_index)],
                    lead_index |-> end_index])

\* a balanced strategy that deals the leads one by one
BalancedDistribution_Dealt(order, list, capacities) ==
    RoundRobinDistribution(order, list, capacities)

\* LeadDistributor._balanced_distribution
BalancedDistribution(order, list, capacities) ==
    IF AvailableTeams(order, capacities) = <<>> THEN EmptyDistribution(order)
    ELSE BalancedLoop(order, list, capacities, 1,
            [dist |-> EmptyDistribution(order), lead_index |-> 0]).dist

\* the whole list handed to the strategy
LeadsToDistribute_All(list, total_available) == list

\* leads_to_distribute = leads[:total_available]
LeadsToDistribute(list, total_available) == Slice(list, 0, total_available)

\* distribute_leads returns: every loop of round_robin and balanced is a
\* for loop over a list, capacity_based has the while loop
DistributeLeadsReturns(order, strategy, list, capacity, used) ==
    LET capacities == TeamCapacities(order, capacity, used)
        total_available == TotalCapacity(capacities)
        leads_to_distribute == LeadsToDistribute(list, total_available)
    IN (total_available # 0 /\ strategy = "capacity_based" /\ leads_to_distribute # <<>>) =>
          RemainderLoopExits(order, leads_to_distribute, capacities,
             ProportionalLoop(order, leads_to_distribute, capacities, 1,
                [dist |-> EmptyDistribution(order), lead_index |-> 0]))

\* LeadDistributor.distribute_leads for the phone_teams listed in order; the
\* empty dict {} is the function with the empty domain
DistributeLeads(order, strategy, list, capacity, used) ==
    LET capacities == TeamCapacities(order, capacity, used)
        total_available == TotalCapacity(capacities)
        leads_to_distribute == LeadsToDistribute(list, total_available)
    IN IF total_available = 0 THEN <<>>
       ELSE IF strategy = "capacity_based"
               THEN CapacityBasedDistribution(order, leads_to_distribute, capacities)
       ELSE IF strategy = "round_robin"
               THEN RoundRobinDistribution(order, leads_to_distribute, capacities)
       ELSE BalancedDistribution(order, leads_to_distribute, capacities)

\* a call of distribute_leads
Distribute ==
    /\ d_pc = "call"
    /\ IF DistributeLeadsReturns(TeamOrder, d_strategy, d_leads, d_capacity, d_used)
          THEN /\ d_pc' = "returned"
               /\ d_result' = DistributeLeads(TeamOrder, d_strategy, d_leads, d_capacity,
                                              d_used)
          ELSE /\ d_pc' = "looping"
               /\ d_result' = d_result
    /\ UNCHANGED <<d_strategy, d_leads, d_capacity, d_used>>
    /\ UNCHANGED <<envVars, gateVars, outcomeVars, watiVars, overlapVars, singleVars, multiVars>>

----------------------------------------------------------------------------
(* GlobalQuotaManager and MultiTeamAutomation                              *)

\* PhoneTeamManager.build_all_teams: the teams whose phone and counsellors
\* are set in .env, in the order of team_configs
MultiTeamOrder == <<"sweta_jio", "sweta_airtel">>

MultiTeams == Range(MultiTeamOrder)

\* <TEAM>_COUNSELLORS of .env
TeamCounsellors(t) ==
    CASE t = "sweta_jio"    -> {"Anandi", "Preeti"}
      [] t = "sweta_airtel" -> {"Preeti"}

\* 'capacity': sum(c['daily_limit'] for c in team_counsellors.values())
TeamCapacity == [t \in MultiTeams |->
    SumOver([name \in TeamCounsellors(t) |-> daily_limit(name)], TeamCounsellors(t))]

MaxMultiLeads == 4      \* longest list the lead API answers a team run with

\* {'global_total': 0, 'teams': {}}; a team the dict lacks reads as 0
EmptyTeamQuota == [global_total |-> 0, teams |-> [t \in MultiTeams |-> 0]]

\* GlobalQuotaManager._load_quota_data
GlobalLoadQuotaData(file, day) ==
    IF day \in DOMAIN file THEN file[day] ELSE EmptyTeamQuota

\* GlobalQuotaManager._save_quota_data
GlobalSaveQuotaData(file, day, data) ==
    RetainWindow(Put(file, day, data), day)

\* GlobalQuotaManager.get_global_remaining
GetGlobalRemaining(data) == Max(0, GLOBAL_DAILY_LIMIT - data.global_total)

\* no lead handed to a gateway yet
NoAttempt == [team |-> "none", client |-> "none", counsellor |-> "none"]

\* _initialize_single_team_browser stores under team_clients[team_id] the
\* client it made with SeleniumWhatsAppClient(team_id=team_id, ...); the
\* team_id of the client stored for a team
ClientTeamId(t) == t

\* the teams of a set, in the order of MultiTeamOrder
OrderOf(S) == SelectSeq(MultiTeamOrder, LAMBDA t : t \in S)

OthersUnchangedM == UNCHANGED <<gateVars, outcomeVars, watiVars, overlapVars, singleVars, distVars>>

\* MultiTeamAutomation.__init__: a new process, GlobalQuotaManager loads
\* today's record
MultiConstruct ==
    /\ mpc = "off"
    /\ runs_left > 0
    /\ runs_left' = runs_left - 1
    /\ clock' \in clocks
    /\ IF JsonLoadRaises(MULTI_QUOTA_FILE)
          THEN \* GlobalQuotaManager() raises; __main__ reports the error
               /\ mpc' = "aborted"
               /\ UNCHANGED quota_data
          ELSE /\ mpc' = "constructed"
               /\ quota_data' = GlobalLoadQuotaData(mt_file, today)
    /\ team_clients' = {}
    /\ UNCHANGED <<today, lead_source, runs_per_day, GLOBAL_DAILY_LIMIT,
                   MAX_CONCURRENT_BROWSERS,
                   SCRIPT_START_TIME, SCRIPT_END_TIME, clocks, unreadable, unwritable, mt_file, team_browser, mstatus,
                   distributed, wpc, widx, wreg, wcont, msends, msuccess, csends, after_halt, mlast>>
    /\ OthersUnchangedM

\* run_multi_team_campaign: working hours and global quota
MultiPreFlight ==
    /\ mpc = "constructed"
    /\ IF ~IsWorkingHours("MultiTeamAutomation", SCRIPT_START_TIME, SCRIPT_END_TIME, clock)
             THEN /\ mstatus' = "outside_working_hours"
                  /\ mpc' = "finally"
          ELSE IF GetGlobalRemaining(quota_data) = 0
             THEN /\ mstatus' = "global_quota_exhausted"
                  /\ mpc' = "finally"
          ELSE /\ mstatus' = mstatus
               /\ mpc' = "init_browsers"
    /\ UNCHANGED <<envVars, mt_file, quota_data, team_clients, team_browser,
                   distributed, wpc, widx, wreg, wcont, msends, msuccess, csends, after_halt, mlast>>
    /\ OthersUnchangedM

\* int(os.getenv('MAX_CONCURRENT_BROWSERS', '4'))
DEFAULT_MAX_BROWSERS == 4

MaxBrowsers == 2    \* largest MAX_CONCURRENT_BROWSERS tried with the two teams

\* the teams whose _initialize_single_team_browser runs in a pool thread
Initializing == {t \in DOMAIN team_browser : team_browser[t] = "starting"}

\* initialize_all_browsers: one task per team is submitted to a
\* ThreadPoolExecutor(max_workers=self.max_browsers)
SubmitBrowserInits ==
    /\ mpc = "init_browsers"
    /\ mpc' = "initializing"
    /\ team_browser' = [t \in MultiTeams |-> "queued"]
    /\ UNCHANGED <<envVars, mt_file, quota_data, team_clients, mstatus,
                   distributed, wpc, widx, wreg, wcont, msends, msuccess, csends, after_halt, mlast>>
    /\ OthersUnchangedM

\* a free thread of the pool takes the task of team t
BeginBrowserInit(t) ==
    /\ mpc = "initializing"
    /\ team_browser[t] = "queued"
    /\ Cardinality(Initializing) < MAX_CONCURRENT_BROWSERS
    /\ team_browser' = [team_browser EXCEPT ![t] = "starting"]
    /\ UNCHANGED <<envVars, mt_file, quota_data, team_clients, mpc, mstatus,
                   distributed, wpc, widx, wreg, wcont, msends, msuccess, csends, after_halt, mlast>>
    /\ OthersUnchangedM

\* _initialize_single_team_browser of team t returns: only a client whose
\* initialize_browser returned True is stored, and its browser stays open
EndBrowserInit(t) ==
    /\ mpc = "initializing"
    /\ team_browser[t] = "starting"
    /\ \E outcome \in {"no_driver", "not_ready", "ready"} :
          /\ team_browser' = [team_browser EXCEPT
                                 ![t] = IF outcome = "no_driver" THEN "none" ELSE "open"]
          /\ team_clients' = IF outcome = "ready" THEN team_clients \cup {t} ELSE team_clients
    /\ UNCHANGED <<envVars, mt_file, quota_data, mpc, mstatus,
                   distributed, wpc, widx, wreg, wcont, msends, msuccess, csends, after_halt, mlast>>
    /\ OthersUnchangedM

\* initialize_all_browsers returns when every task is done; then
\* run_multi_team_campaign looks for a successful team
InitializeAllBrowsers ==
    /\ mpc = "initializing"
    /\ \A t \in MultiTeams : team_browser[t] \in {"none", "open"}
    /\ IF team_clients = {}
          THEN /\ mstatus' = "all_browsers_failed"
               /\ mpc' = "finally"
          ELSE /\ mstatus' = mstatus
               /\ mpc' = "fetch"
    /\ UNCHANGED <<envVars, mt_file, quota_data, team_clients, team_browser,
                   distributed, wpc, widx, wreg, wcont, msends, msuccess, csends, after_halt, mlast>>
    /\ OthersUnchangedM

\* every configured team taken for active, logged in or not
ActiveTeams_All(clients) == MultiTeams

\* fetch_and_distribute_leads: active_teams = list(self.team_clients.keys())
ActiveTeams(clients) == clients

\* fetch_and_distribute_leads: total_capacity = min(capacity of the active
\* teams, global remaining)
EffectiveCapacity(active, data) ==
    Min(TotalCapacity(TeamCapacities(OrderOf(active), TeamCapacity, data.teams)),
        GetGlobalRemaining(data))

\* process_teams_parallel submits a worker for every team with leads
StartWorkers(dist) ==
    /\ distributed' = dist
    /\ wpc' = [t \in MultiTeams |->
                  IF t \in DOMAIN dist /\ dist[t] # <<>> THEN "lead" ELSE "done"]
    /\ widx' = [t \in MultiTeams |-> 1]
    /\ wreg' = [t \in MultiTeams |-> 0]
    /\ wcont' = [t \in MultiTeams |-> TRUE]
    /\ mstatus' = mstatus
    /\ mpc' = "workers"

\* process_teams_parallel: a team with leads but no browser session, the
\* ValueError ends the campaign in the except clause
SecurityViolation(dist) ==
    /\ distributed' = dist
    /\ mstatus' = "error"
    /\ mpc' = "finally"
    /\ UNCHANGED <<wpc, widx, wreg, wcont>>

NoLeadsToDistribute ==
    /\ mstatus' = "no_leads_to_distribute"
    /\ mpc' = "finally"
    /\ UNCHANGED <<distributed, wpc, widx, wreg, wcont>>

\* fetch_and_distribute_leads, then the start of process_teams_parallel.
\* The answer of the lead API is whatever list it sends, [] on an error.
FetchAndDistributeLeads ==
    /\ mpc = "fetch"
    /\ IF EffectiveCapacity(ActiveTeams(team_clients), quota_data) = 0
          THEN NoLeadsToDistribute
          ELSE \E answer \in lead_source \cup {<<>>} :
                  LET dist == DistributeLeads(OrderOf(ActiveTeams(team_clients)), "capacity_based",
                                              answer, TeamCapacity, quota_data.teams)
                  IN IF answer = <<>> \/ DOMAIN dist = {}
                        THEN NoLeadsToDistribute
                     ELSE IF \E t \in DOMAIN dist : t \notin team_clients
                        THEN SecurityViolation(dist)
                        ELSE StartWorkers(dist)
    /\ UNCHANGED <<envVars, mt_file, quota_data, team_clients, team_browser,
                   msends, msuccess, csends, after_halt, mlast>>
    /\ OthersUnchangedM

\* _get_team_counsellor: random.choice over the counsellors of the team
GetTeamCounsellor(t) == TeamCounsellors(t)

\* _process_single_team_secured, one pass of the loop up to the call of
\* increment_quota: _get_team_counsellor always finds a counsellor, the
\* result of the team's client is any MessageResult.  On success the
\* worker is inside increment_quota: the team counter is written, which no
\* other worker touches, and global_total has been read.
ProcessTeamLead(t) ==
    /\ mpc \in {"workers", "interrupted"}
    /\ wpc[t] = "lead"
    /\ widx[t] <= Len(distributed[t])
    /\ \E counsellor_name \in GetTeamCounsellor(t), result \in GatewayOutcomes :
          IF ClientTeamId(t) # t
             THEN \* "Browser session mismatch": errors += 1, continue
                  /\ widx' = [widx EXCEPT ![t] = @ + 1]
                  /\ UNCHANGED <<after_halt, wcont, msends, msuccess, csends, quota_data,
                                 wreg, wpc, mlast>>
             ELSE /\ after_halt' = IF wcont[t] THEN after_halt ELSE after_halt \cup {t}
                  /\ mlast' = [team |-> t, client |-> ClientTeamId(t),
                               counsellor |-> counsellor_name]
                  /\ wcont' = [wcont EXCEPT ![t] = @ /\ result.should_continue]
                  /\ IF result.success
                        THEN /\ msends' = [msends EXCEPT ![distributed[t][widx[t]]] = @ + 1]
                             /\ msuccess' = msuccess + 1
                             /\ csends' = [csends EXCEPT ![counsellor_name] = @ + 1]
                             /\ quota_data' = [quota_data EXCEPT !.teams[t] = @ + 1]
                             /\ wreg' = [wreg EXCEPT ![t] = quota_data.global_total]
                             /\ wpc' = [wpc EXCEPT ![t] = "increment"]
                             /\ widx' = widx
                        ELSE /\ widx' = [widx EXCEPT ![t] = @ + 1]
                             /\ UNCHANGED <<msends, msuccess, csends, quota_data, wreg, wpc>>
    /\ UNCHANGED <<envVars, mt_file, team_clients, team_browser, mpc, mstatus, distributed>>
    /\ OthersUnchangedM

\* increment_quota, the write of global_total and _save_quota_data, then
\* the rest of the loop pass
IncrementQuotaWrite(t) ==
    /\ mpc \in {"workers", "interrupted"}
    /\ wpc[t] = "increment"
    /\ quota_data' = [quota_data EXCEPT !.global_total = wreg[t] + 1]
    /\ mt_file' = GlobalSaveQuotaData(mt_file, today, quota_data')
    /\ widx' = [widx EXCEPT ![t] = @ + 1]
    /\ wpc' = [wpc EXCEPT ![t] = "lead"]
    /\ UNCHANGED <<envVars, team_clients, team_browser, mpc, mstatus, distributed,
                   wreg, wcont, msends, msuccess, csends, after_halt, mlast>>
    /\ OthersUnchangedM

\* _process_single_team_secured returns after the last lead
TeamDone(t) ==
    /\ mpc \in {"workers", "interrupted"}
    /\ wpc[t] = "lead"
    /\ widx[t] > Len(distributed[t])
    /\ wpc' = [wpc EXCEPT ![t] = "done"]
    /\ UNCHANGED <<envVars, mt_file, quota_data, team_clients, team_browser, mpc, mstatus,
                   distributed, widx, wreg, wcont, msends, msuccess, csends, after_halt, mlast>>
    /\ OthersUnchangedM

\* process_teams_parallel has collected every worker
ProcessTeamsDone ==
    /\ mpc = "workers"
    /\ \A t \in MultiTeams : wpc[t] = "done"
    /\ mstatus' = "completed"
    /\ mpc' = "finally"
    /\ UNCHANGED <<envVars, mt_file, quota_data, team_clients, team_browser,
                   distributed, wpc, widx, wreg, wcont, msends, msuccess, csends, after_halt, mlast>>
    /\ OthersUnchangedM

\* KeyboardInterrupt in the main thread while it waits in as_completed: the
\* with block of the ThreadPoolExecutor shuts down with wait=True, so the
\* workers run on
MultiInterrupt ==
    /\ mpc = "workers"
    /\ mpc' = "interrupted"
    /\ UNCHANGED <<envVars, mt_file, quota_data, team_clients, team_browser, mstatus,
                   distributed, wpc, widx, wreg, wcont, msends, msuccess, csends, after_halt, mlast>>
    /\ OthersUnchangedM

\* the executor has shut down; the interrupt passes except Exception and
\* reaches the finally clause, no result dict is built
InterruptPropagates ==
    /\ mpc = "interrupted"
    /\ \A t \in MultiTeams : wpc[t] = "done"
    /\ mpc' = "finally"
    /\ UNCHANGED <<envVars, mt_file, quota_data, team_clients, team_browser, mstatus,
                   distributed, wpc, widx, wreg, wcont, msends, msuccess, csends, after_halt, mlast>>
    /\ OthersUnchangedM

\* the finally clause of run_multi_team_campaign: close_all_browsers closes
\* the stored clients
CloseAllBrowsers ==
    /\ mpc = "finally"
    /\ team_browser' = [t \in DOMAIN team_browser |->
                           IF t \in team_clients THEN "closed" ELSE team_browser[t]]
    /\ team_clients' = {}
    /\ mpc' = "returned"
    /\ UNCHANGED <<envVars, mt_file, quota_data, mstatus,
                   distributed, wpc, widx, wreg, wcont, msends, msuccess, csends, after_halt, mlast>>
    /\ OthersUnchangedM

\* the process ends; the file and the day's history stay
MultiExit ==
    /\ mpc \in {"returned", "aborted"}
    /\ mpc' = "off"
    /\ mstatus' = "none"
    /\ quota_data' = EmptyTeamQuota
    /\ team_browser' = <<>>
    /\ distributed' = <<>>
    /\ wpc' = <<>>
    /\ widx' = <<>>
    /\ wreg' = <<>>
    /\ wcont' = <<>>
    /\ after_halt' = {}
    /\ mlast' = NoAttempt
    /\ UNCHANGED <<envVars, mt_file, team_clients, msends, msuccess, csends>>
    /\ OthersUnchangedM

----------------------------------------------------------------------------
(* Initial states and specifications                                       *)

\* the day records quota_usage.json may hold for today when the day's first
\* process starts: every count within its limit
ValidRecords ==
    {r \in [QuotaKeys -> 0..GLOBAL_DAILY_LIMIT] :
        /\ \A name \in ALL_COUNSELLORS : r[name] <= daily_limit(name)
        /\ r["global_total"] <= GLOBAL_DAILY_LIMIT}

RECURSIVE ListsUpTo(_, _)
ListsUpTo(S, n) ==
    IF n = 0 THEN {<<>>}
    ELSE LET shorter == ListsUpTo(S, n - 1)
         IN shorter \cup {Append(l, x) : l \in shorter, x \in S}

\* the short lists the lead API may answer with, repeated ids included
ShortLists == ListsUpTo(LeadIds, MaxLeads) \ {<<>>}

\* a batch of ScenarioLen distinct leads
ScenarioLeads == [k \in 1..ScenarioLen |-> k]

\* SCRIPT_START_TIME = '09:00', SCRIPT_END_TIME = '21:00' of the Selenium
\* file; the script is started at noon or at 22:00
InitOffice ==
    /\ SCRIPT_START_TIME = <<9, 0>>
    /\ SCRIPT_END_TIME = <<21, 0>>
    /\ clocks = {TimeOfDay(12, 0, 0), TimeOfDay(22, 0, 0)}
    /\ clock = TimeOfDay(12, 0, 0)

InitOverlapIdle ==
    o_proc = [p \in Procs |-> IdleProcess]

InitWatiIdle ==
    /\ w_quota_file = <<>>
    /\ w_sent_file = <<>>
    /\ w_daily_quota = WatiEmptyQuota
    /\ w_sent_today = {}
    /\ w_pc = "off"
    /\ w_status = "none"
    /\ w_leads = <<>>
    /\ w_i = 1
    /\ w_calls = NoCalls
    /\ w_send = NoSend
    /\ w_total_sent = 0
    /\ w_total_failed = 0

----------------------------------------------------------------------------
(* The functions that build a MessageResult                                *)

\* the keyword groups _categorize_wati_error looks for in the info text of
\* the gateway, in the order of its elif chain
InfoKeywords == {"meta_restricted", "credits", "template", "account", "invalid",
                 "whatsapp", "opt"}

\* EnhancedWATIClient._categorize_wati_error; info is the set of keyword
\* groups the text contains
CategorizeWatiError(info) ==
    IF "meta_restricted" \in info THEN "account_issue"
    ELSE IF "credits" \in info THEN "quota_exceeded"
    ELSE IF "template" \in info THEN "template_mismatch"
    ELSE IF "account" \in info THEN "account_issue"
    ELSE IF "invalid" \in info THEN "invalid_number"
    ELSE IF "whatsapp" \in info THEN "not_on_whatsapp"
    ELSE IF "opt" \in info THEN "opt_out"
    ELSE "unknown_error"

\* systematic_errors of send_template_message
SystematicErrors == {"quota_exceeded", "account_issue", "template_mismatch"}

\* a gateway that stops the campaign on every failure
ShouldContinue_Never(error_category) == FALSE

\* should_continue = error_category not in systematic_errors
ShouldContinue(error_category) == error_category \notin SystematicErrors

\* MessageResult(success, status, message_id, error_category, error_message,
\* should_continue); message_id is kept as "there is one"
MessageResult(success, message_status, message_id, error_category, error_message, should_continue) ==
    [success |-> success, status |-> message_status, message_id |-> message_id,
     error_category |-> error_category, error_message |-> error_message,
     should_continue |-> should_continue]

NoResult == MessageResult(FALSE, "pending", FALSE, "none", "none", TRUE)

\* EnhancedWATIClient.send_template_message of lead_automation_wati_optimized.py;
\* answer.http is "ok" for status 200, "error" for another status,
\* "exception" when the request raises
OptimizedSendTemplateMessage(answer) ==
    IF answer.http = "exception"
       THEN MessageResult(FALSE, "failed", FALSE, "network_error", "exception", TRUE)
    ELSE IF answer.http = "error"
       THEN MessageResult(FALSE, "failed", FALSE, "network_error", "http", TRUE)
    ELSE IF answer.result
       THEN MessageResult(TRUE, "sent", answer.message_id, "none", "none", TRUE)
    ELSE LET error_category == CategorizeWatiError(answer.info)
         IN MessageResult(FALSE, "failed", FALSE, error_category, "wati_info",
                          ShouldContinue(error_category))

\* EnhancedWATIClient.get_delivery_status
DeliveryStatuses == {"sent", "delivered", "read", "failed", "pending"}

\* process_single_lead of lead_automation_wati_optimized.py: the early
\* return for a lead sent today, the send, the poll of the delivery status
OptimizedProcessSingleLead(answer) ==
    IF answer.already_sent
       THEN MessageResult(FALSE, "failed", FALSE, "unknown_error", "Already sent today", TRUE)
    ELSE LET result == OptimizedSendTemplateMessage(answer)
             final_status ==
                 IF result.success /\ result.message_id /\ answer.delivery_status # "pending"
                    THEN answer.delivery_status
                    ELSE result.status
         IN [result EXCEPT !.status = final_status]

\* what SeleniumWhatsAppClient.send_template_message returns
SeleniumClientResults ==
    {MessageResult(TRUE, "sent", TRUE, "none", "none", TRUE)}
    \cup {MessageResult(FALSE, "failed", FALSE, c, "error", TRUE) :
             c \in {"invalid_number", "not_on_whatsapp", "element_not_found",
                    "whatsapp_web_error", "unknown_error"}}

\* MultiTeamAutomation._process_single_lead_for_team_secured: the three
\* security checks, then the send through the team's client
ProcessSingleLeadForTeamSecured(answer) ==
    IF ~answer.team_config
       THEN MessageResult(FALSE, "failed", FALSE, "unknown_error",
                          "Invalid team configuration", FALSE)
    ELSE IF ~answer.counsellor_in_team
       THEN MessageResult(FALSE, "failed", FALSE, "unknown_error",
                          "Counsellor-team mismatch", FALSE)
    ELSE IF ~answer.client_team
       THEN MessageResult(FALSE, "failed", FALSE, "unknown_error",
                          "Client-team mismatch", FALSE)
    ELSE answer.client_result

Producers == {"EnhancedWATIClient.send_template_message",
              "EnhancedLeadAutomation.process_single_lead",
              "MultiTeamAutomation._process_single_lead_for_team_secured"}

\* an answer in which nothing goes wrong
NoAnswer == [already_sent |-> FALSE, http |-> "ok", result |-> TRUE, info |-> {},
             message_id |-> TRUE, delivery_status |-> "pending",
             team_config |-> TRUE, counsellor_in_team |-> TRUE, client_team |-> TRUE,
             client_result |-> MessageResult(TRUE, "sent", TRUE, "none", "none", TRUE)]

\* the answers that matter to each producer
GatewayAnswers ==
    {[NoAnswer EXCEPT !.http = h, !.result = r, !.info = w, !.message_id = m] :
        h \in {"ok", "error", "exception"}, r \in BOOLEAN, w \in SUBSET InfoKeywords,
        m \in BOOLEAN}

AnswersTo(producer) ==
    CASE producer = "EnhancedWATIClient.send_template_message" -> GatewayAnswers
      [] producer = "EnhancedLeadAutomation.process_single_lead" ->
            {[a EXCEPT !.already_sent = s, !.delivery_status = d] :
                a \in GatewayAnswers, s \in BOOLEAN, d \in DeliveryStatuses}
      [] producer = "MultiTeamAutomation._process_single_lead_for_team_secured" ->
            {[NoAnswer EXCEPT !.team_config = t, !.counsellor_in_team = c,
                              !.client_team = k, !.client_result = r] :
                t \in BOOLEAN, c \in BOOLEAN, k \in BOOLEAN, r \in SeleniumClientResults}

\* one call of a producer
BuildMessageResult ==
    /\ mr_pc = "call"
    /\ mr_pc' = "returned"
    /\ mr_result' =
          CASE mr_producer = "EnhancedWATIClient.send_template_message" ->
                  OptimizedSendTemplateMessage(mr_input)
            [] mr_producer = "EnhancedLeadAutomation.process_single_lead" ->
                  OptimizedProcessSingleLead(mr_input)
            [] mr_producer = "MultiTeamAutomation._process_single_lead_for_team_secured" ->
                  ProcessSingleLeadForTeamSecured(mr_input)
    /\ UNCHANGED <<envVars, gateVars, mr_producer, mr_input, watiVars, overlapVars,
                   singleVars, distVars, multiVars>>

InitOutcomeIdle ==
    /\ mr_producer = "none"
    /\ mr_input = NoAnswer
    /\ mr_result = NoResult
    /\ mr_pc = "idle"

InitGateIdle ==
    /\ g_variant = "EnhancedLeadAutomation"
    /\ g_result = FALSE
    /\ g_pc = "off"

InitSingleProcess ==
    /\ sent_file = <<>>
    /\ daily_quota = EmptyRecord
    /\ sent_today = {}
    /\ browser = "none"
    /\ pc = "off"
    /\ status = "none"
    /\ leads = <<>>
    /\ i = 1
    /\ processed = 0
    /\ metrics = NoMetrics
    /\ sends = ZeroSends
    /\ attempted = {}
    /\ halted_at = 0
    /\ saved_today = FALSE
    /\ streak = 0

InitDistIdle ==
    /\ d_strategy = "capacity_based"
    /\ d_leads = <<>>
    /\ d_capacity = <<>>
    /\ d_used = <<>>
    /\ d_result = <<>>
    /\ d_pc = "off"

InitMultiIdle ==
    /\ mt_file = <<>>
    /\ quota_data = <<>>
    /\ team_clients = {}
    /\ team_browser = <<>>
    /\ mpc = "off"
    /\ mstatus = "none"
    /\ distributed = <<>>
    /\ wpc = <<>>
    /\ widx = <<>>
    /\ wreg = <<>>
    /\ wcont = <<>>
    /\ msends = <<>>
    /\ msuccess = 0
    /\ csends = <<>>
    /\ after_halt = {}
    /\ mlast = NoAttempt

\* several starts on one day, short batches, any valid record for today
Init ==
    /\ today = FirstDay
    /\ GLOBAL_DAILY_LIMIT = GlobalLimit
    /\ MAX_CONCURRENT_BROWSERS = DEFAULT_MAX_BROWSERS
    /\ InitOffice
    /\ unreadable = {}
    /\ unwritable = {}
    /\ InitGateIdle
    /\ InitOutcomeIdle
    /\ InitWatiIdle
    /\ InitOverlapIdle
    /\ lead_source = ShortLists
    /\ runs_per_day = MaxRuns
    /\ runs_left = runs_per_day
    /\ quota_file \in {<<>>} \cup {[d \in {today} |-> r] : r \in ValidRecords}
    /\ InitSingleProcess
    /\ InitDistIdle
    /\ InitMultiIdle

\* one start, the long batch, no tables yet
InitScenario ==
    /\ today = FirstDay
    /\ GLOBAL_DAILY_LIMIT = GlobalLimit
    /\ MAX_CONCURRENT_BROWSERS = DEFAULT_MAX_BROWSERS
    /\ InitOffice
    /\ unreadable = {}
    /\ unwritable = {}
    /\ InitGateIdle
    /\ InitOutcomeIdle
    /\ InitWatiIdle
    /\ InitOverlapIdle
    /\ lead_source = {ScenarioLeads}
    /\ runs_per_day = 1
    /\ runs_left = runs_per_day
    /\ quota_file = <<>>
    /\ InitSingleProcess
    /\ InitDistIdle
    /\ InitMultiIdle

\* one start a day, one lead a day, no tables yet
InitRetention ==
    /\ today = FirstDay
    /\ GLOBAL_DAILY_LIMIT = GlobalLimit
    /\ MAX_CONCURRENT_BROWSERS = DEFAULT_MAX_BROWSERS
    /\ InitOffice
    /\ unreadable = {}
    /\ unwritable = {}
    /\ InitGateIdle
    /\ InitOutcomeIdle
    /\ InitWatiIdle
    /\ InitOverlapIdle
    /\ lead_source = {<<1>>}
    /\ runs_per_day = 1
    /\ runs_left = runs_per_day
    /\ quota_file = <<>>
    /\ InitSingleProcess
    /\ InitDistIdle
    /\ InitMultiIdle

Next ==
    \/ Construct
    \/ PreFlight
    \/ InitializeBrowser
    \/ FetchLeads
    \/ ProcessLead
    \/ LoopDone
    \/ Interrupt
    \/ CampaignError
    \/ Finally
    \/ Exit

Spec == Init /\ [][Next]_vars

InitSingleIdle ==
    /\ today = FirstDay
    /\ GLOBAL_DAILY_LIMIT = GlobalLimit
    /\ MAX_CONCURRENT_BROWSERS = DEFAULT_MAX_BROWSERS
    /\ InitOffice
    /\ unreadable = {}
    /\ unwritable = {}
    /\ InitGateIdle
    /\ InitOutcomeIdle
    /\ InitWatiIdle
    /\ InitOverlapIdle
    /\ lead_source = {}
    /\ runs_per_day = 0
    /\ runs_left = 0
    /\ quota_file = <<>>
    /\ InitSingleProcess

\* any strategy, any list of distinct leads, any capacities and used counts
InitDist ==
    /\ d_strategy \in {"capacity_based", "round_robin", "balanced"}
    /\ d_leads \in {[k \in 1..n |-> k] : n \in 0..MaxDistLeads}
    /\ d_capacity \in [Teams -> (1..MaxTeamCapacity) \cup {ScenarioCapacity}]
    /\ d_used \in [Teams -> 0..MaxTeamCapacity]
    /\ d_result = <<>>
    /\ d_pc = "call"
    /\ InitSingleIdle
    /\ InitMultiIdle

NextDist == Distribute

SpecDist == InitDist /\ [][NextDist]_vars

\* a GLOBAL_DAILY_LIMIT of .env above what all counsellors together may send
AmpleGlobalLimit == 2 * (LimitAnandi + LimitPreeti)

\* several starts on one day, lists of distinct leads, no table yet, any
\* global limit
InitMulti ==
    /\ today = FirstDay
    /\ GLOBAL_DAILY_LIMIT \in (1..GlobalLimit) \cup {AmpleGlobalLimit}
    /\ MAX_CONCURRENT_BROWSERS \in 1..MaxBrowsers
    /\ InitOffice
    /\ unreadable \in SUBSET {MULTI_QUOTA_FILE}
    /\ unwritable = {}
    /\ InitGateIdle
    /\ InitOutcomeIdle
    /\ InitWatiIdle
    /\ InitOverlapIdle
    /\ lead_source = {[k \in 1..n |-> k] : n \in 1..MaxMultiLeads}
    /\ runs_per_day = MaxRuns
    /\ runs_left = runs_per_day
    /\ quota_file = <<>>
    /\ InitSingleProcess
    /\ InitDistIdle
    /\ mt_file = <<>>
    /\ quota_data = EmptyTeamQuota
    /\ team_clients = {}
    /\ team_browser = <<>>
    /\ mpc = "off"
    /\ mstatus = "none"
    /\ distributed = <<>>
    /\ wpc = <<>>
    /\ widx = <<>>
    /\ wreg = <<>>
    /\ wcont = <<>>
    /\ msends = ZeroSends
    /\ msuccess = 0
    /\ csends = [name \in ALL_COUNSELLORS |-> 0]
    /\ after_halt = {}
    /\ mlast = NoAttempt

NextMulti ==
    \/ MultiConstruct
    \/ MultiPreFlight
    \/ SubmitBrowserInits
    \/ \E t \in MultiTeams : BeginBrowserInit(t)
    \/ \E t \in MultiTeams : EndBrowserInit(t)
    \/ InitializeAllBrowsers
    \/ FetchAndDistributeLeads
    \/ \E t \in MultiTeams : ProcessTeamLead(t)
    \/ \E t \in MultiTeams : IncrementQuotaWrite(t)
    \/ \E t \in MultiTeams : TeamDone(t)
    \/ ProcessTeamsDone
    \/ MultiInterrupt
    \/ InterruptPropagates
    \/ CloseAllBrowsers
    \/ MultiExit

SpecMulti == InitMulti /\ [][NextMulti]_vars

\* the queue of distinct leads the lead API hands over in one answer
QueueLeads == [k \in 1..QueueLen |-> k]

\* one start, the queue, no tables yet
InitQueue ==
    /\ today = FirstDay
    /\ GLOBAL_DAILY_LIMIT = GlobalLimit
    /\ MAX_CONCURRENT_BROWSERS = DEFAULT_MAX_BROWSERS
    /\ InitOffice
    /\ unreadable = {}
    /\ unwritable = {}
    /\ InitGateIdle
    /\ InitOutcomeIdle
    /\ InitWatiIdle
    /\ InitOverlapIdle
    /\ lead_source = {QueueLeads}
    /\ runs_per_day = 1
    /\ runs_left = runs_per_day
    /\ quota_file = <<>>
    /\ InitSingleProcess
    /\ InitDistIdle
    /\ InitMultiIdle

SpecQueue == InitQueue /\ [][Next]_vars

SpecScenario == InitScenario /\ [][Next]_vars

NextRetention ==
    \/ Construct
    \/ PreFlight
    \/ InitializeBrowser
    \/ FetchLeads
    \/ ProcessLead
    \/ LoopDone
    \/ Interrupt
    \/ CampaignError
    \/ Finally
    \/ Exit
    \/ NextDay

SpecRetention == InitRetention /\ [][NextRetention]_vars

\* the single-browser orchestrator started with state files that may hold
\* anything: no file, a readable table, or text that is not JSON
InitLoad ==
    /\ today = FirstDay
    /\ GLOBAL_DAILY_LIMIT = GlobalLimit
    /\ MAX_CONCURRENT_BROWSERS = DEFAULT_MAX_BROWSERS
    /\ SCRIPT_START_TIME = <<9, 0>>
    /\ SCRIPT_END_TIME = <<21, 0>>
    /\ clocks = {TimeOfDay(12, 0, 0), TimeOfDay(22, 0, 0)}
    /\ clock = TimeOfDay(12, 0, 0)
    /\ unreadable \in SUBSET {QUOTA_FILE, SENT_FILE}
    /\ unwritable = {}
    /\ InitGateIdle
    /\ InitOutcomeIdle
    /\ InitWatiIdle
    /\ InitOverlapIdle
    /\ lead_source = ShortLists
    /\ runs_per_day = MaxRuns
    /\ runs_left = runs_per_day
    /\ quota_file \in {<<>>} \cup {[d \in {today} |-> r] : r \in ValidRecords}
    /\ InitSingleProcess
    /\ InitDistIdle
    /\ InitMultiIdle

SpecLoad == InitLoad /\ [][Next]_vars

\* the single-browser orchestrator on a machine where the process may be
\* killed at any time; no tables yet
InitCrash ==
    /\ today = FirstDay
    /\ GLOBAL_DAILY_LIMIT = GlobalLimit
    /\ MAX_CONCURRENT_BROWSERS = DEFAULT_MAX_BROWSERS
    /\ InitOffice
    /\ unreadable = {}
    /\ unwritable = {}
    /\ InitGateIdle
    /\ InitOutcomeIdle
    /\ InitWatiIdle
    /\ InitOverlapIdle
    /\ lead_source = ShortLists
    /\ runs_per_day = MaxRuns
    /\ runs_left = runs_per_day
    /\ quota_file = <<>>
    /\ InitSingleProcess
    /\ InitDistIdle
    /\ InitMultiIdle

NextCrash ==
    \/ Next
    \/ CrashWhileRecording

SpecCrash == InitCrash /\ [][NextCrash]_vars

\* one start of the single-browser orchestrator on a machine where a state
\* file may not be writable
InitWriteFault ==
    /\ today = FirstDay
    /\ GLOBAL_DAILY_LIMIT = GlobalLimit
    /\ MAX_CONCURRENT_BROWSERS = DEFAULT_MAX_BROWSERS
    /\ InitOffice
    /\ unreadable = {}
    /\ unwritable \in SUBSET {QUOTA_FILE, SENT_FILE}
    /\ InitGateIdle
    /\ InitOutcomeIdle
    /\ InitWatiIdle
    /\ InitOverlapIdle
    /\ lead_source = ShortLists
    /\ runs_per_day = 1
    /\ runs_left = runs_per_day
    /\ quota_file = <<>>
    /\ InitSingleProcess
    /\ InitDistIdle
    /\ InitMultiIdle

SpecWriteFault == InitWriteFault /\ [][Next]_vars

\* a run of the single-browser orchestrator that lasts: the clock moves and
\* midnight may pass while the loop is at work
NextLongRun ==
    \/ Next
    \/ ClockAdvances
    \/ MidnightWhileRunning

SpecLongRun == Init /\ [][NextLongRun]_vars

\* two starts of the single-browser script on the same day, no tables yet
InitOverlap ==
    /\ today = FirstDay
    /\ GLOBAL_DAILY_LIMIT = GlobalLimit
    /\ MAX_CONCURRENT_BROWSERS = DEFAULT_MAX_BROWSERS
    /\ InitOffice
    /\ unreadable = {}
    /\ unwritable = {}
    /\ InitGateIdle
    /\ InitOutcomeIdle
    /\ InitWatiIdle
    /\ InitOverlapIdle
    /\ lead_source = ShortLists
    /\ runs_per_day = 0
    /\ runs_left = 0
    /\ quota_file = <<>>
    /\ InitSingleProcess
    /\ InitDistIdle
    /\ InitMultiIdle

NextOverlap ==
    \E p \in Procs :
        \/ OverlapConstruct(p)
        \/ OverlapStart(p)
        \/ OverlapProcessLead(p)
        \/ OverlapLoopDone(p)

SpecOverlap == InitOverlap /\ [][NextOverlap]_vars

\* lead_automation_wati.py as configured, SCRIPT_START_TIME = '09:00' and
\* SCRIPT_END_TIME = '18:00', started at noon or at 20:00, no files yet
InitWati ==
    /\ today = FirstDay
    /\ GLOBAL_DAILY_LIMIT = GlobalLimit
    /\ MAX_CONCURRENT_BROWSERS = DEFAULT_MAX_BROWSERS
    /\ lead_source = ShortLists
    /\ runs_per_day = MaxRuns
    /\ runs_left = runs_per_day
    /\ SCRIPT_START_TIME = <<9, 0>>
    /\ SCRIPT_END_TIME = <<18, 0>>
    /\ clocks = {TimeOfDay(12, 0, 0), TimeOfDay(20, 0, 0)}
    /\ unreadable \in SUBSET {QUOTA_FILE, SENT_FILE}
    /\ unwritable = {}
    /\ clock = TimeOfDay(12, 0, 0)
    /\ InitGateIdle
    /\ InitOutcomeIdle
    /\ InitWatiIdle
    /\ InitOverlapIdle
    /\ quota_file = <<>>
    /\ InitSingleProcess
    /\ InitDistIdle
    /\ InitMultiIdle

NextWati ==
    \/ WatiConstruct
    \/ RunAutomation
    \/ WatiProcessLead
    \/ WatiLoopDone
    \/ WatiExit

SpecWati == InitWati /\ [][NextWati]_vars

\* the check taken alone: any of the four classes, a configured window
\* whose texts parse or do not, and a clock around the ends of the windows
TimeTexts == {<<9, 0>>, <<18, 0>>, <<21, 0>>, <<24, 0>>, <<9>>, <<>>}

Instants ==
    {TimeOfDay(8, 59, 59), TimeOfDay(9, 0, 0), TimeOfDay(12, 0, 0),
     TimeOfDay(17, 59, 59), TimeOfDay(18, 0, 0), TimeOfDay(18, 0, 1),
     TimeOfDay(20, 0, 0), TimeOfDay(21, 0, 0), TimeOfDay(21, 0, 1)}

InitGate ==
    /\ today = FirstDay
    /\ GLOBAL_DAILY_LIMIT = GlobalLimit
    /\ MAX_CONCURRENT_BROWSERS = DEFAULT_MAX_BROWSERS
    /\ lead_source = {}
    /\ runs_per_day = 0
    /\ runs_left = 0
    /\ SCRIPT_START_TIME \in TimeTexts
    /\ SCRIPT_END_TIME \in TimeTexts
    /\ clocks = Instants
    /\ unreadable = {}
    /\ unwritable = {}
    /\ clock \in Instants
    /\ g_variant \in Variants
    /\ g_result = FALSE
    /\ g_pc = "call"
    /\ InitOutcomeIdle
    /\ InitWatiIdle
    /\ InitOverlapIdle
    /\ quota_file = <<>>
    /\ InitSingleProcess
    /\ InitDistIdle
    /\ InitMultiIdle

NextGate == CheckWorkingHours

SpecGate == InitGate /\ [][NextGate]_vars

\* every producer of a MessageResult with every answer it can get
InitOutcome ==
    /\ today = FirstDay
    /\ GLOBAL_DAILY_LIMIT = GlobalLimit
    /\ MAX_CONCURRENT_BROWSERS = DEFAULT_MAX_BROWSERS
    /\ InitOffice
    /\ unreadable = {}
    /\ unwritable = {}
    /\ lead_source = {}
    /\ runs_per_day = 0
    /\ runs_left = 0
    /\ InitGateIdle
    /\ mr_producer \in Producers
    /\ mr_input \in AnswersTo(mr_producer)
    /\ mr_result = NoResult
    /\ mr_pc = "call"
    /\ InitWatiIdle
    /\ InitOverlapIdle
    /\ quota_file = <<>>
    /\ InitSingleProcess
    /\ InitDistIdle
    /\ InitMultiIdle

NextOutcome == BuildMessageResult

SpecOutcome == InitOutcome /\ [][NextOutcome]_vars

----------------------------------------------------------------------------
(* Properties of the single-browser orchestrator                           *)

QuotaWithinLimits(quota) ==
    /\ \A name \in ALL_COUNSELLORS : quota[name] <= daily_limit(name)
    /\ quota["global_total"] <= GLOBAL_DAILY_LIMIT

\* C1: from a day record within its limits, after every step of every run
\* each counsellor's used count is at most its daily_limit and global_total
\* at most GLOBAL_DAILY_LIMIT, in memory and in quota_usage.json, and no
\* counter decreases within the day.
QuotaMonotonicity ==
    [][ /\ QuotaWithinLimits(daily_quota')
        /\ today \in DOMAIN quota_file' => QuotaWithinLimits(quota_file'[today])
        /\ \A k \in QuotaKeys : daily_quota'[k] >= daily_quota[k] ]_vars

\* a run has made increments up to Anandi's limit and the global limit
QuotaMonotonicityWitness ==
    /\ saved_today
    /\ daily_quota["Anandi"] = LimitAnandi
    /\ daily_quota["global_total"] = GLOBAL_DAILY_LIMIT
    /\ quota_file[today] = daily_quota

\* C2: over any number of runs on one day, each started after the previous
\* one has ended and reloading sent_messages.json, no lead id gets two
\* successful sends.
DedupIdempotence == \A id \in DOMAIN sends : sends[id] <= 1

\* a later run skips, without any gateway call of its own, a lead that an
\* earlier run of the day has sent
DedupIdempotenceWitness ==
    /\ pc = "loop"
    /\ i = 2
    /\ attempted = {}
    /\ sends[leads[1]] = 1
    /\ leads[1] \in sent_today

\* C3: when the gateway answers should_continue = False for the lead at
\* position k, the loop is left at once: exactly the k - 1 leads before it
\* count as processed and no lead after position k reaches the gateway.
CircuitBreaker ==
    halted_at # 0 =>
        /\ pc \in {"finally", "returned"}
        /\ processed = halted_at - 1
        /\ i = halted_at
        /\ \A k \in attempted : k <= halted_at

\* the scripted case: the long batch, the halt on its 3rd lead
CircuitBreakerWitness ==
    /\ leads = ScenarioLeads
    /\ halted_at = 3
    /\ processed = 2
    /\ attempted = {1, 2, 3}
    /\ pc = "returned"

\* C10: when run_campaign has returned, the browser it started is closed.
ChannelReleased == pc = "returned" => browser # "open"

\* C5: after _save_quota_data has written on each of 10 consecutive days,
\* quota_usage.json holds exactly 7 entries, today and the 6 days before it.
SevenDayRetention ==
    (saved_today /\ streak >= 9)
        => /\ Cardinality(DOMAIN quota_file) = 7
           /\ DOMAIN quota_file = (today - 6)..today

\* C11: when a KeyboardInterrupt has ended the per-lead loop, the next step of
\* run_campaign is the finally block, which closes the browser before the
\* function returns.
CancellationCleanup ==
    [][pc = "except" => (pc' = "returned" /\ browser' = "closed")]_vars

\* the interrupt arrived in the middle of the batch, after a send, with the
\* browser open
CancellationCleanupWitness ==
    /\ pc = "except"
    /\ browser = "open"
    /\ i = 2
    /\ i <= Len(leads)
    /\ sends[leads[1]] = 1

\* every lead handed to the gateway in this run was sent
AllDelivered == \A k \in attempted : sends[leads[k]] = 1

\* the sends the quotas allow for the queue
QueueQuota == Min(QueueLen, Min(GLOBAL_DAILY_LIMIT, LimitAnandi + LimitPreeti))

\* C12: with empty stores and a queue longer than the quota, no counsellor
\* is used beyond its daily_limit whatever the random choices are; when
\* every delivery succeeds the run performs exactly as many sends as the
\* quotas allow (3 for limits 2 and 1 and global limit 3), on the first
\* leads of the queue, and the loop breaks at the next lead, which stays
\* unsent.
QueueScenario ==
    /\ daily_quota["Anandi"] <= LimitAnandi
    /\ daily_quota["Preeti"] <= LimitPreeti
    /\ SumOver(sends, 1..QueueLen) <= QueueQuota
    /\ (pc = "finally" /\ leads = QueueLeads /\ AllDelivered) =>
          /\ SumOver(sends, 1..QueueLen) = QueueQuota
          /\ \A k \in 1..QueueLen : sends[k] = (IF k <= QueueQuota THEN 1 ELSE 0)
          /\ QueueQuota < QueueLen => i = QueueQuota + 1 /\ i \notin attempted

\* the loop has broken with a lead left after sends that all succeeded and
\* that filled Anandi's limit and the global limit
QueueScenarioWitness ==
    /\ pc = "finally"
    /\ leads = QueueLeads
    /\ AllDelivered
    /\ attempted = 1..(i - 1)
    /\ i <= Len(leads)
    /\ daily_quota["Anandi"] = LimitAnandi
    /\ daily_quota["global_total"] = GLOBAL_DAILY_LIMIT

----------------------------------------------------------------------------
(* Properties of LeadDistributor                                           *)

\* number of leads a returned mapping assigns
Assigned(result) ==
    SumOver([t \in DOMAIN result |-> Len(result[t])], DOMAIN result)

\* C4: with the capacity_based strategy distribute_leads assigns exactly
\* min(len(leads), sum of the remaining capacities) leads in total and no
\* team more leads than its remaining capacity.
DistributionConservation ==
    (d_pc = "returned" /\ d_strategy = "capacity_based") =>
        LET capacities == TeamCapacities(TeamOrder, d_capacity, d_used)
        IN /\ Assigned(d_result) = Min(Len(d_leads), TotalCapacity(capacities))
           /\ \A t \in DOMAIN d_result : Len(d_result[t]) <= capacities[t]

\* a call with fewer leads than capacity in which one team has no capacity
\* left and the remainder loop placed a lead: a team holds more than its
\* floored share
DistributionConservationWitness ==
    /\ d_pc = "returned"
    /\ d_strategy = "capacity_based"
    /\ LET capacities == TeamCapacities(TeamOrder, d_capacity, d_used)
           total == TotalCapacity(capacities)
           n == Len(d_leads)
       IN /\ 0 < n /\ n < total
          /\ \E t \in Teams : capacities[t] = 0
          /\ \E t \in Teams : Len(d_result[t]) > LeadsForTeam(n, capacities[t], total)

\* the remaining capacities of the round-robin scenario: two teams far
\* from full, the third full
ScenarioCapacities ==
    [t \in Teams |-> IF t = TeamOrder[3] THEN 0 ELSE ScenarioCapacity]

\* C16: five leads handed round robin to three teams with remaining
\* capacities 10, 10 and 0: the third team gets nothing, the first team the
\* 1st, 3rd and 5th lead, the second team the 2nd and 4th.
RoundRobinScenario ==
    (/\ d_pc = "returned"
     /\ d_strategy = "round_robin"
     /\ Len(d_leads) = 5
     /\ TeamCapacities(TeamOrder, d_capacity, d_used) = ScenarioCapacities) =>
        /\ d_result[TeamOrder[3]] = <<>>
        /\ d_result[TeamOrder[1]] = <<d_leads[1], d_leads[3], d_leads[5]>>
        /\ d_result[TeamOrder[2]] = <<d_leads[2], d_leads[4]>>

RoundRobinScenarioWitness ==
    /\ d_pc = "returned"
    /\ d_strategy = "round_robin"
    /\ Len(d_leads) = 5
    /\ TeamCapacities(TeamOrder, d_capacity, d_used) = ScenarioCapacities
    /\ Assigned(d_result) = 5
    /\ Len(d_result[TeamOrder[1]]) = 3

\* C17: with the round_robin strategy a team that is full is passed over
\* and the lead goes to a later team with room, so that the number of
\* assigned leads is min(len(leads), sum(capacities)).
RoundRobinSkipsFullTeams ==
    (d_pc = "returned" /\ d_strategy = "round_robin") =>
        Assigned(d_result)
            = Min(Len(d_leads), TotalCapacity(TeamCapacities(TeamOrder, d_capacity, d_used)))

\* what distribute_leads hands to the strategy: the remaining capacities,
\* the list cut to their sum, the teams with room in pool order
GivenCapacities == TeamCapacities(TeamOrder, d_capacity, d_used)
GivenLeads == SubSeq(d_leads, 1, Min(Len(d_leads), TotalCapacity(GivenCapacities)))
TeamsWithRoom == SelectSeq(TeamOrder, LAMBDA t : GivenCapacities[t] > 0)

\* the share of the k-th team with room: len // n_teams, one more for the
\* first len mod n_teams teams, capped at the capacity of the team
BalancedShare(k) ==
    Min((Len(GivenLeads) \div Len(TeamsWithRoom))
           + (IF k - 1 < Len(GivenLeads) % Len(TeamsWithRoom) THEN 1 ELSE 0),
        GivenCapacities[TeamsWithRoom[k]])

BalancedStart(k) == SumOver([j \in 1..(k - 1) |-> BalancedShare(j)], 1..(k - 1))

\* C18 as stated, n_teams being the number of teams of the pool and i the
\* place of the team in the pool: the i-th team receives
\* min(len(leads) // n_teams + (1 if i < len(leads) mod n_teams else 0),
\* capacity_i) leads.
BalancedSharesOfPool ==
    (d_pc = "returned" /\ d_strategy = "balanced" /\ TeamsWithRoom # <<>>) =>
        \A k \in 1..Len(TeamOrder) :
            Len(d_result[TeamOrder[k]])
               = Min((Len(GivenLeads) \div Len(TeamOrder))
                        + (IF k - 1 < Len(GivenLeads) % Len(TeamOrder) THEN 1 ELSE 0),
                     GivenCapacities[TeamOrder[k]])

\* C18, amended: with the balanced strategy the i-th team with room receives
\* min(len(leads) // n_teams + (1 if i < len(leads) mod n_teams else 0),
\* capacity_i) leads, a contiguous run of the list in input order that
\* starts where the run of the team before it ends; no team receives more
\* than its capacity.
BalancedShares ==
    (d_pc = "returned" /\ d_strategy = "balanced" /\ TeamsWithRoom # <<>>) =>
        /\ \A k \in 1..Len(TeamsWithRoom) :
              d_result[TeamsWithRoom[k]]
                 = SubSeq(GivenLeads, BalancedStart(k) + 1, BalancedStart(k) + BalancedShare(k))
        /\ \A t \in Teams : Len(d_result[t]) <= GivenCapacities[t]

BalancedSharesWitness ==
    /\ d_pc = "returned"
    /\ d_strategy = "balanced"
    /\ Len(TeamsWithRoom) = 3
    /\ Len(GivenLeads) % 3 = 2
    /\ Len(d_result[TeamOrder[1]]) = 2
    /\ Len(d_result[TeamOrder[2]]) = GivenCapacities[TeamOrder[2]]
    /\ GivenCapacities[TeamOrder[2]] = 1
    /\ Len(d_result[TeamOrder[3]]) = 1
    /\ Assigned(d_result) < Len(GivenLeads)

\* C19: when the remaining capacity of all teams together is 0,
\* distribute_leads returns a mapping that has every team of the pool as a
\* key, each mapped to the empty sequence.
ZeroCapacityMapping ==
    (d_pc = "returned" /\ TotalCapacity(GivenCapacities) = 0) =>
        /\ DOMAIN d_result = Teams
        /\ \A t \in Teams : d_result[t] = <<>>

----------------------------------------------------------------------------
(* Properties of MultiTeamAutomation                                       *)

MultiTeamDedup == \A id \in DOMAIN msends : msends[id] <= 1

\* C8: the day's global_total of the multi-team run never exceeds
\* GLOBAL_DAILY_LIMIT, in memory and in multi_team_quota.json.
MultiTeamGlobalCap ==
    /\ mpc # "off" => quota_data.global_total <= GLOBAL_DAILY_LIMIT
    /\ today \in DOMAIN mt_file => mt_file[today].global_total <= GLOBAL_DAILY_LIMIT

\* C9: once all workers have finished, global_total in memory and in the
\* file equals the number of successful sends and the sum of the team
\* counters.
AtomicIncrements ==
    (mpc = "finally" /\ mstatus = "completed") =>
        /\ quota_data.global_total = msuccess
        /\ quota_data.global_total = SumOver(quota_data.teams, MultiTeams)
        /\ msuccess > 0 => mt_file[today] = quota_data

----------------------------------------------------------------------------
(* Properties of the working-hours check                                   *)

Parsed == ParseTime(SCRIPT_START_TIME) # ValueError /\ ParseTime(SCRIPT_END_TIME) # ValueError

\* C14: the window is half-open: with both configured times readable, the
\* check lets the run proceed exactly when start <= t < end, so a run
\* started at the end time itself is outside working hours.
HalfOpenWindow ==
    (g_pc = "returned" /\ Parsed) =>
        (g_result <=> /\ ParseTime(SCRIPT_START_TIME) <= clock
                      /\ clock < ParseTime(SCRIPT_END_TIME))

\* C15: in every variant, when the configured start or end time cannot be
\* parsed, the check reports that the time is within working hours.
FailOpenGate ==
    (g_pc = "returned" /\ ~Parsed) => g_result

\* C13: with the window 09:00-18:00 and the clock at 20:00, the first step
\* of the run returns status outside_working_hours; no request has gone to
\* the lead source, the gateway or the log sink, and the quota and sent
\* stores, on disk and in memory, are as they were.
GateScenario ==
    [][(w_pc = "constructed" /\ SCRIPT_START_TIME = <<9, 0>> /\ SCRIPT_END_TIME = <<18, 0>>
          /\ clock = TimeOfDay(20, 0, 0)) =>
       (/\ w_pc' = "returned"
        /\ w_status' = "outside_working_hours"
        /\ w_calls' = NoCalls
        /\ UNCHANGED <<w_quota_file, w_sent_file, w_daily_quota, w_sent_today>>)]_vars

GateScenarioWitness ==
    /\ w_pc = "returned"
    /\ w_status = "outside_working_hours"
    /\ clock = TimeOfDay(20, 0, 0)
    /\ SCRIPT_START_TIME = <<9, 0>> /\ SCRIPT_END_TIME = <<18, 0>>
    /\ w_calls = NoCalls
    /\ today \in DOMAIN w_quota_file
    /\ WatiTotalRemaining(w_daily_quota) > 0
    /\ w_sent_today # {}

----------------------------------------------------------------------------
(* Properties of the state files                                           *)

\* C20: a state file that is missing or holds invalid JSON never aborts the
\* run: the constructor ends with an empty table for today and the run
\* goes on.
UnreadableFileStartsEmpty ==
    /\ pc # "aborted"
    /\ mpc # "aborted"
    /\ (pc = "constructed" /\ JsonLoadRaises(QUOTA_FILE)) => daily_quota = EmptyRecord
    /\ (pc = "constructed" /\ JsonLoadRaises(SENT_FILE)) => sent_today = {}

\* C21: when the process is killed while a successful send is being
\* recorded, quota_usage.json is afterwards either the complete table of
\* before or the complete new table with the counter of the sender and
\* global_total both incremented; never a half-written table.
CrashSafeQuotaTable ==
    [][(pc = "loop" /\ pc' = "off") =>
          /\ ~JsonLoadRaises(QUOTA_FILE)'
          /\ \/ quota_file' = quota_file
             \/ \E name \in ALL_COUNSELLORS :
                   quota_file' = SaveQuotaData(quota_file, today, IncrementQuota(daily_quota, name))]_vars

\* C22: two processes that run at overlapping times on the same day, share
\* sent_messages.json and are offered the same lead make, in every
\* interleaving, at most one successful send to that lead.
OverlapDedup ==
    \A id \in LeadIds :
        (\A p \in Procs : o_proc[p].pc # "off" /\ id \in Range(o_proc[p].leads))
            => sends[id] <= 1

\* the open browser sessions and the team workers that are running
OpenChannels == {t \in DOMAIN team_browser : team_browser[t] = "open"}
RunningWorkers == {t \in DOMAIN wpc : wpc[t] \in {"lead", "increment"}}

\* C23: at every moment of a multi-team run at most MAX_CONCURRENT_BROWSERS
\* browser sessions are open and at most that many team workers run.
BoundedChannels ==
    /\ Cardinality(OpenChannels) <= MAX_CONCURRENT_BROWSERS
    /\ Cardinality(RunningWorkers) <= MAX_CONCURRENT_BROWSERS

\* C24: in the multi-team runs no counsellor has more successful sends in
\* their name on one day than their daily_limit
CounsellorCap ==
    \A name \in DOMAIN csends : csends[name] <= daily_limit(name)

----------------------------------------------------------------------------
(* Properties of the retry loop of the REST variant                        *)

\* every request of the call failed at the network/API level
EveryAttemptFailed(send) ==
    /\ send.responses # <<>>
    /\ \A k \in 1..Len(send.responses) : send.responses[k] \in {ApiFailed, RaisedError}
    /\ ~send.success

\* C25: one call of send_whatsapp_message asks the gateway at most 3
\* times and waits 2^attempt seconds (1, then 2) between the requests; when
\* every request failed at the network/API level the call made 3 requests
\* and returns a failure with should_continue true, and run_automation
\* counts the lead as failed and goes on with the next lead.
BoundedRetry ==
    /\ [](/\ w_send.gateway <= 3
          /\ w_send.gateway = Len(w_send.responses)
          /\ w_send.sleeps = [k \in 1..(Len(w_send.responses) - 1) |-> 2 ^ (k - 1)]
          /\ EveryAttemptFailed(w_send) =>
                /\ w_send.gateway = 3
                /\ w_send.sleeps = <<1, 2>>
                /\ w_send.should_continue)
    /\ [][(w_calls'["gateway"] # w_calls["gateway"] /\ EveryAttemptFailed(w_send')) =>
             (/\ w_pc' = "loop"
              /\ w_i' = w_i + 1
              /\ w_total_failed' = w_total_failed + 1)]_vars

BoundedRetryWitness ==
    /\ w_send.responses = <<ApiFailed, RaisedError, ApiFailed>>
    /\ w_send.sleeps = <<1, 2>>
    /\ w_pc = "loop"
    /\ w_i = 2
    /\ w_total_failed = 1
    /\ w_i <= Len(w_leads)

----------------------------------------------------------------------------
(* Properties of the gates before the browsers                             *)

\* C26 (multi-team orchestrator): a run that starts within working hours
\* with global quota left while no team has capacity left ends with status
\* quota_exhausted, with no browser opened and no lead fetched.
QuotaExhaustedGate ==
    [][(/\ mpc = "constructed"
        /\ IsWorkingHours("MultiTeamAutomation", SCRIPT_START_TIME, SCRIPT_END_TIME, clock)
        /\ GetGlobalRemaining(quota_data) > 0
        /\ EffectiveCapacity(MultiTeams, quota_data) = 0) =>
       (/\ mstatus' = "quota_exhausted"
        /\ mpc' = "finally"
        /\ team_clients' = {}
        /\ distributed' = <<>>)]_vars

----------------------------------------------------------------------------
(* Properties of the end of a run                                          *)

\* C27 (multi-team orchestrator, the one the entry point starts): a run
\* that has ended handed a result with a status keyword to the entry point.
NoSilentExit ==
    mpc = "returned" => mstatus # "none"

----------------------------------------------------------------------------
(* Properties of errors inside the per-lead loop                           *)

\* C28 (single-browser Selenium orchestrator): an exception raised while
\* one lead is processed does not end the per-lead loop; control is never
\* in the exception handler of the run with leads of the batch left.
ErrorContainment ==
    ~(pc = "except_error" /\ i <= Len(leads))

----------------------------------------------------------------------------
(* Properties of the recording of an outcome                               *)

\* the counsellor counters of a quota table
CounsellorCounters(quota) == [name \in ALL_COUNSELLORS |-> quota[name]]

\* C29: a step of the per-lead loop that tracks a result of the gateway
\* records it as follows.  Delivered: the counter of one counsellor and
\* global_total each grow by exactly 1, nothing else in the table changes,
\* and the lead id joins sent_today.  Failed: the table, the sent set and
\* both files stay as they are and only the analytics count the failure.
\* The tracking of the optimized REST variant does the same without a
\* global counter.
OutcomeRecording ==
    /\ [][(pc = "loop" /\ metrics'.total_processed = metrics.total_processed + 1) =>
             IF metrics'.sent = metrics.sent + 1
                THEN /\ \E name \in ALL_COUNSELLORS :
                           daily_quota' = [daily_quota EXCEPT ![name] = @ + 1,
                                                              !["global_total"] = @ + 1]
                     /\ sent_today' = sent_today \cup {leads[i]}
                     /\ metrics'.failed = metrics.failed
                ELSE /\ UNCHANGED <<daily_quota, sent_today, quota_file, sent_file>>
                     /\ metrics'.sent = metrics.sent
                     /\ metrics'.failed = metrics.failed + 1]_vars
    /\ [](\A name \in ALL_COUNSELLORS, lead_id \in LeadIds, result \in GatewayOutcomes :
            LET before == CounsellorCounters(daily_quota)
                after  == OptimizedTrack(before, sent_today, name, lead_id, result)
            IN IF result.success
                  THEN /\ after.daily_quota[name] = before[name] + 1
                       /\ \A other \in ALL_COUNSELLORS \ {name} :
                             after.daily_quota[other] = before[other]
                       /\ after.sent_today = sent_today \cup {lead_id}
                  ELSE /\ after.daily_quota = before
                       /\ after.sent_today = sent_today)

OutcomeRecordingWitness ==
    /\ pc = "loop"
    /\ metrics = [total_processed |-> 2, sent |-> 1, failed |-> 1]
    /\ daily_quota["global_total"] = 1
    /\ Cardinality(sent_today) = 1

----------------------------------------------------------------------------
(* Properties of the skip of a lead sent earlier today                     *)

\* C30 (single-browser Selenium orchestrator): the pass of the per-lead
\* loop over a lead whose id is in sent_today hands nothing to the gateway,
\* changes no quota counter, no file and no analytics counter, and does not
\* count the lead in the processed count of the result.
SkipAlreadySent ==
    [][(/\ pc = "loop" /\ i <= Len(leads)
        /\ ~GlobalLimitReached(daily_quota)
        /\ AvailableCounsellors(daily_quota) # {}
        /\ AlreadySent(leads[i], sent_today)
        /\ pc' = "loop" /\ i' = i + 1) =>
       UNCHANGED <<attempted, sends, daily_quota, quota_file, sent_today, sent_file,
                   metrics, processed>>]_vars

----------------------------------------------------------------------------
(* Properties of the sent set                                              *)

\* C31: every lead id in today's sent set, in the memory of a running
\* process and under today's key of sent_messages.json, is the id of a lead
\* that was delivered successfully today; the sent set of a running process
\* grows only by the id of the lead delivered in that step.
SentSetSoundness ==
    /\ [](/\ pc # "off" => \A id \in sent_today : sends[id] >= 1
          /\ today \in DOMAIN sent_file =>
                \A id \in Range(sent_file[today]) : sends[id] >= 1)
    /\ [][(pc = "loop" /\ sent_today' # sent_today) =>
             /\ sent_today' = sent_today \cup {leads[i]}
             /\ sends'[leads[i]] = sends[leads[i]] + 1]_vars

SentSetSoundnessWitness ==
    /\ pc = "loop"
    /\ sent_today = {1}
    /\ metrics.failed >= 1
    /\ attempted = {2}
    /\ sends[2] = 0
    /\ today \in DOMAIN sent_file

\* C32: every MessageResult a gateway or a lead-processing function returns
\* has status failed or pending when it is not a success; it stops the
\* campaign (should_continue false) only when it is a failure whose cause is
\* systemic: quota or credit exhaustion, an account issue, a rejected
\* template, or a failed team security check; a success never stops it
SecurityMessages == {"Invalid team configuration", "Counsellor-team mismatch",
                     "Client-team mismatch"}

DeliveryOutcomeInvariant ==
    mr_pc = "returned" =>
       /\ ~mr_result.success => mr_result.status \in {"failed", "pending"}
       /\ ~mr_result.should_continue =>
             /\ ~mr_result.success
             /\ \/ mr_result.error_category \in SystematicErrors
                \/ mr_result.error_message \in SecurityMessages
       /\ mr_result.success => mr_result.should_continue

DeliveryOutcomeWitness ==
    /\ mr_pc = "returned"
    /\ mr_producer = "EnhancedLeadAutomation.process_single_lead"
    /\ ~mr_result.success
    /\ ~mr_result.should_continue
    /\ mr_result.error_category = "template_mismatch"
    /\ mr_result.status = "failed"

----------------------------------------------------------------------------
(* Properties of the two counters of a day record                          *)

CountersAgree(quota) == quota["global_total"] = SumOver(quota, ALL_COUNSELLORS)

\* C33 (single-browser Selenium orchestrator): the day record
\* _load_quota_data returns has global_total equal to the sum of the
\* counsellor counts, for a record of today whose counters agree and for one
\* that has counsellor counts but no global_total key (a lacking key and a
\* global_total of 0 load alike); and every step of a run keeps the two
\* equal.
CounterConsistency ==
    /\ [][(/\ pc = "off" /\ pc' = "constructed"
           /\ today \in DOMAIN quota_file
           /\ \/ CountersAgree(quota_file[today])
              \/ quota_file[today]["global_total"] = 0) =>
          CountersAgree(daily_quota')]_vars
    /\ [][(pc \notin {"off", "aborted"} /\ pc' \notin {"off", "aborted"}
           /\ CountersAgree(daily_quota)) =>
          CountersAgree(daily_quota')]_vars

----------------------------------------------------------------------------
(* Properties of the working-hours window during a run                     *)

\* C34 (single-browser Selenium orchestrator): a lead is handed to the
\* gateway only while the time of day is inside the working-hours window,
\* also in a run that started inside the window and is still in its loop
\* when the window closes.
NoAttemptOutsideHours ==
    [][attempted' # attempted =>
          IsWorkingHours("EnhancedLeadAutomation", SCRIPT_START_TIME, SCRIPT_END_TIME,
                         clock)]_vars

----------------------------------------------------------------------------
(* Properties of the date a count is kept under                            *)

PersistedTotal(file, day) == IF day \in DOMAIN file THEN file[day]["global_total"] ELSE 0

\* C35 (single-browser Selenium orchestrator): the count kept under a date
\* in quota_usage.json counts the sends of that date only: a save made
\* during the loop raises the count under the current date by the one send
\* it records, counting from 0 when the file has no record for that date,
\* also when midnight has passed since the run started.
DayScopedCounters ==
    [][(pc = "loop" /\ quota_file' # quota_file) =>
          PersistedTotal(quota_file', today) = PersistedTotal(quota_file, today) + 1]_vars

----------------------------------------------------------------------------
(* Properties of the duplicate check when a state file cannot be written   *)

\* C36 (single-browser Selenium orchestrator): within one run, a lead id
\* that this run has sent successfully is never handed to the gateway
\* again, e.g. when the batch names the id twice, also when the write of
\* sent_messages.json fails.
InRunDedup ==
    [][(pc = "loop" /\ attempted' # attempted) => sends[leads[i]] = 0]_vars

----------------------------------------------------------------------------
(* Properties of the team channels                                         *)

\* C37 (multi-team): every lead handed to a gateway goes through the client
\* whose team_id is the team the lead was distributed to, in the name of a
\* counsellor of that team, and no lead is distributed to or processed by a
\* team whose browser did not get ready.
TeamChannelIsolation ==
    /\ [][\A t \in DOMAIN wpc :
             (wpc[t] = "lead" /\ (wpc'[t] = "increment" \/ widx'[t] > widx[t])) =>
                /\ mlast' = [team |-> t, client |-> t, counsellor |-> mlast'.counsellor]
                /\ mlast'.counsellor \in TeamCounsellors(t)
                /\ t \in team_clients]_vars
    /\ [][distributed' # distributed =>
             \A t \in DOMAIN distributed' :
                distributed'[t] # <<>> => t \in team_clients]_vars

\* one team's browser did not get ready, the other team has handed a lead
\* to its own client
TeamChannelIsolationWitness ==
    /\ mpc = "workers"
    /\ team_clients = {"sweta_airtel"}
    /\ team_browser["sweta_jio"] = "none"
    /\ mlast = [team |-> "sweta_airtel", client |-> "sweta_airtel", counsellor |-> "Preeti"]
    /\ distributed["sweta_airtel"] # <<>>

----------------------------------------------------------------------------
(* Properties of the end of a distribution                                 *)

\* C38: distribute_leads returns for every lead list, strategy and quota
\* state; the loop of the capacity-based strategy that hands out the
\* remainder never repeats a pass that assigns nothing, the list having
\* been cut to the total remaining capacity.
DistributionTerminates == d_pc # "looping"

\* a capacity-based call has returned in which one team had no room left
\* and the remainder loop had leads to hand out
DistributionTerminatesWitness ==
    /\ d_pc = "returned"
    /\ d_strategy = "capacity_based"
    /\ \E t \in Teams : GivenCapacities[t] = 0
    /\ LET list == LeadsToDistribute(d_leads, TotalCapacity(GivenCapacities))
       IN /\ list # <<>>
          /\ ProportionalLoop(TeamOrder, list, GivenCapacities, 1,
                [dist |-> EmptyDistribution(TeamOrder), lead_index |-> 0]).lead_index
                < Len(list)

====
